---------------------------- MODULE Spec2Model ----------------------------
(***************************************************************************)
(* A model of src/Utils/FuriganaManager.py: the Term grammar, the          *)
(* Dictionary (append / remove / search) and the line tokenizer.           *)
(*                                                                         *)
(* A Python str is a sequence of characters; a character is a TLA+ string. *)
(* Characters outside ASCII are written by name:                           *)
(*   kanji     c_tou 東  c_kyo 京  c_yo 読  c_ku 来  c_su 過  c_taka 高    *)
(*   hiragana  h_<romaji>, e.g. h_mu む, h_xtu っ                          *)
(* The backslash is the one-character string "\\".                         *)
(***************************************************************************)
EXTENDS Integers, Sequences, FiniteSets, TLC

VARIABLES
    dic,            \* Dictionary.dic: the rows, in DataFrame order
    index,          \* Dictionary.index: the id the next append uses
    file,           \* the table at dic_path: the rows last saved, without ids
    seen,           \* history: the ids this Dictionary held when it was
                    \* created, and those its append has returned since
    before,         \* history: dic, index and seen as the last call found them
    ret,            \* the last Dictionary call and what it returned
    line,           \* the argument of line_to_tokens0/1/2
    shape,          \* 0, 1, 2: which of line_to_tokens0/1/2 is running
    remaining_line, \* the local of the scan loop
    tokens,         \* the local of the scan loop, returned at the end
    pc,             \* "idle", "scan", "returned", "raised"
    step,           \* what the last loop iteration did
    self,           \* the fields last given to Term(...)
    out,            \* the last call on that Term and what it returned or raised
    frames,         \* the DataFrames of the Dictionary objects kept side by side
    dicts           \* those Dictionary objects: the source, then what find returned

vars ==
    <<dic, index, file, seen, before, ret, line, shape, remaining_line, tokens, pc, step,
      self, out, frames, dicts>>

----------------------------------------------------------------------------
(* Characters *)

\* the kanji written here: 東 京 読 来 過 高
is_cjk_unified(c) == c \in {"c_tou", "c_kyo", "c_yo", "c_ku", "c_su", "c_taka"}

is_hiragana(c) ==
    c \in
    {"h_wa", "h_i", "h_u", "h_e", "h_o", "h_xtu", "h_ka", "h_ki", "h_ku",
     "h_ke", "h_ko", "h_ga", "h_gi", "h_gu", "h_ge", "h_go", "h_sa", "h_si",
     "h_su", "h_se", "h_so", "h_ta", "h_ti", "h_tu", "h_te", "h_to", "h_na",
     "h_ni", "h_nu", "h_ne", "h_no", "h_n", "h_ba", "h_bi", "h_bu", "h_be",
     "h_bo", "h_ma", "h_mi", "h_mu", "h_me", "h_mo", "h_ra", "h_ri", "h_ru",
     "h_re", "h_ro", "h_yo", "h_hi"}

is_katakana(c) == c \in {"k_a"}

is_kana(c) == is_hiragana(c) \/ is_katakana(c)

isdigit(c) == c \in {"0", "1", "2", "3", "5"}

\* str.isalpha: letters of any script
isalpha(c) == c \in {"a", "b", "A", "B"} \/ is_cjk_unified(c) \/ is_kana(c)

lower(c) == CASE c = "A" -> "a" [] c = "B" -> "b" [] OTHER -> c

upper(c) == CASE c = "a" -> "A" [] c = "b" -> "B" [] OTHER -> c

----------------------------------------------------------------------------
(* Python str and list helpers *)

\* a value computed once and used under a name, as a local variable is
With(x, F(_)) == F(x)

\* Optional[str]: None is the empty tuple, a value s is <<s>>
None == <<>>

Some(s) == <<s>>

RECURSIVE Join(_)
\* str.join("", parts)
Join(parts) == IF parts = <<>> THEN <<>> ELSE Head(parts) \o Join(Tail(parts))

\* s[i:] with a 1-based first index
From(s, i) == IF i > Len(s) THEN <<>> ELSE SubSeq(s, i, Len(s))

\* s[:n]
Take(s, n) == IF n >= Len(s) THEN s ELSE SubSeq(s, 1, n)

\* s.startswith(p)
StartsWith(s, p) == Len(p) <= Len(s) /\ SubSeq(s, 1, Len(p)) = p

RECURSIVE Replace(_, _, _)
\* s.replace(old, new) for a non-empty old: left to right, non-overlapping
Replace(s, old, new) ==
    IF s = <<>> THEN <<>>
    ELSE IF StartsWith(s, old) THEN new \o Replace(From(s, Len(old) + 1), old, new)
    ELSE <<Head(s)>> \o Replace(Tail(s), old, new)

\* the lookbehind (?<!\$) at position i of s: the character before is not "$"
NotAfterDollar(s, i) == i = 1 \/ s[i - 1] # "$"

\* the positions at which the pattern (?<!\$)c matches in s
SepPositions(s, c) == {i \in 1..Len(s) : s[i] = c /\ NotAfterDollar(s, i)}


----------------------------------------------------------------------------
(* Term: the separator grammar *)

\* the eight values of Term.term_type: 名詞 固有 五段 上下 サ変 カ変 形容 英語
TermTypes == {"meishi", "koyuu", "godan", "jouge", "sahen", "kahen", "keiyou", "eigo"}

RECURSIVE TransferFrom(_, _)
\* the loop of is_valid_transfer from 1-based position i: an accepted pair
\* advances by 2 and then by 1 more
TransferFrom(s, i) ==
    IF i > Len(s) THEN TRUE
    ELSE IF s[i] = "$"
         THEN IF i + 1 <= Len(s) /\ s[i + 1] \in {"/", "\\", "*", "$"}
              THEN TransferFrom(s, i + 3)
              ELSE FALSE
         ELSE TransferFrom(s, i + 1)

is_valid_transfer(s) == TransferFrom(s, 1)

RECURSIVE DivRemoveFrom(_, _, _)
DivRemoveFrom(s, c, i) ==
    IF i > Len(s) THEN <<>>
    ELSE (IF s[i] = c /\ NotAfterDollar(s, i) THEN <<>> ELSE <<s[i]>>)
         \o DivRemoveFrom(s, c, i + 1)

\* re.sub("(?<!\$)c", "", s)
div_remove(s, c) == DivRemoveFrom(s, c, 1)

RECURSIVE DivSplitFrom(_, _, _, _)
\* the pieces of s from position i on, cur being the piece under construction
DivSplitFrom(s, c, i, cur) ==
    IF i > Len(s) THEN <<cur>>
    ELSE IF s[i] = c /\ NotAfterDollar(s, i)
         THEN <<cur>> \o DivSplitFrom(s, c, i + 1, <<>>)
         ELSE DivSplitFrom(s, c, i + 1, Append(cur, s[i]))

\* re.split("(?<!\$)c", s)
div_split(s, c) == DivSplitFrom(s, c, 1, <<>>)

is_jp_str(s) ==
    \A i \in 1..Len(s) :
        is_cjk_unified(s[i]) \/ is_kana(s[i]) \/ isdigit(s[i]) \/ s[i] \in {".", "-", "+"}

is_jp_valid_str(s) ==
    \A i \in 1..Len(s) : is_jp_str(<<s[i]>>) \/ s[i] \in {"/", "\\", "*"}

remove_seps(s) ==
    LET a == div_remove(div_remove(div_remove(s, "/"), "\\"), "*")
        b == Replace(a, <<"$", "/">>, <<"/">>)
        c == Replace(b, <<"$", "\\">>, <<"\\">>)
        d == Replace(c, <<"$", "*">>, <<"*">>)
    IN  Replace(d, <<"$", "$">>, <<"$">>)

\* the positions of a "*" that the patterns remove_gobi and get_gobi accept:
\* not after "$" and with at least one character before it
GobiStars(s) == {i \in SepPositions(s, "*") : i >= 2}

\* the star a greedy leading (.+) or .+ settles on: the last one
LastStar(s) == CHOOSE i \in GobiStars(s) : \A j \in GobiStars(s) : j <= i

\* re.match("^(.+)(?<!\$)\*.*$", s): group 1, or s itself when there is no match
remove_gobi(s) == IF GobiStars(s) = {} THEN s ELSE SubSeq(s, 1, LastStar(s) - 1)

\* re.match("^.+(?<!\$)(\*).+$", s) is not None
is_gobi_exists(s) == \E i \in GobiStars(s) : i < Len(s)

\* re.match("^.+(?<!\$)\*(.*)$", s): group 1
get_gobi(s) == From(s, LastStar(s) + 1)

----------------------------------------------------------------------------
(* Term: validation at construction *)

\* Term fields as one record
MkTerm(jp, kana, div0, div1, term_type, pri) ==
    [jp |-> jp, kana |-> kana, div0 |-> div0, div1 |-> div1,
     term_type |-> term_type, pri |-> pri]

\* a test of the ending that takes る alone
GobiFitsRu(term_type, jp_gobi) == jp_gobi = <<"h_ru">>

\* a test of the ending that takes the godan endings for every type
GobiFitsGodan(term_type, jp_gobi) ==
    /\ Len(jp_gobi) = 1
    /\ jp_gobi[1] \in {"h_u", "h_ku", "h_gu", "h_su", "h_tu", "h_nu", "h_bu", "h_mu", "h_ru"}

\* the per-type test of the ending, the match statement of is_valid
GobiFitsType(term_type, jp_gobi) ==
    CASE term_type = "godan" -> /\ Len(jp_gobi) = 1
             /\ jp_gobi[1] \in {"h_u", "h_ku", "h_gu", "h_su", "h_tu", "h_nu", "h_bu", "h_mu",
                                "h_ru"}
      [] term_type = "jouge" -> jp_gobi = <<"h_ru">>
      [] term_type = "sahen" -> jp_gobi = <<"h_su", "h_ru">>
      [] term_type = "keiyou" -> jp_gobi = <<"h_i">>
      [] OTHER -> FALSE

\* a pass of the segment loop that tests the division digit alone
SegmentValidDigit(term_type, jp_elem, kana_elem, div_elem) ==
    IF term_type # "koyuu" /\ jp_elem # <<>> /\ \A i \in 1..Len(jp_elem) : is_kana(jp_elem[i])
    THEN div_elem = <<"-", "1">>
    ELSE div_elem \in {<<"-", "1">>, <<"0">>, <<"1">>, <<"2">>}

\* one pass of the segment loop of is_valid
SegmentValid(term_type, jp_elem, kana_elem, div_elem) ==
    LET is_all_kana == \A i \in 1..Len(jp_elem) : is_kana(jp_elem[i])
        is_not_all_kana == \A i \in 1..Len(jp_elem) : ~is_kana(jp_elem[i])
    IN  IF term_type # "koyuu"
        THEN IF is_all_kana
             THEN IF is_not_all_kana THEN FALSE
                  ELSE jp_elem = kana_elem /\ div_elem = <<"-", "1">>
             ELSE IF is_not_all_kana
                  THEN div_elem \in {<<"0">>, <<"1">>, <<"2">>}
                  ELSE FALSE
        ELSE div_elem \in {<<"-", "1">>, <<"0">>, <<"1">>, <<"2">>}

\* the tail of is_valid: split the three strings and compare segment by segment
SegmentsValid(term_type, jp, kana, division, div_char) ==
    LET jp_list == div_split(jp, div_char)
        kana_list == div_split(kana, div_char)
        div_list == div_split(division, div_char)
    IN  /\ Len(jp_list) = Len(kana_list)
        /\ Len(jp_list) = Len(div_list)
        /\ \A i \in 1..Len(jp_list) :
               SegmentValid(term_type, jp_list[i], kana_list[i], div_list[i])

\* Term.is_valid(div_type)
is_valid(t, div_type) ==
    LET div_char == IF div_type = 0 THEN "/" ELSE "\\"
        other_char == IF div_type = 0 THEN "\\" ELSE "/"
        jp == div_remove(t.jp, other_char)
        kana == div_remove(t.kana, other_char)
        division == div_remove(IF div_type = 0 THEN t.div0 ELSE t.div1, other_char)
        any_gobi == is_gobi_exists(jp) \/ is_gobi_exists(kana) \/ is_gobi_exists(division)
        all_gobi == is_gobi_exists(jp) /\ is_gobi_exists(kana) /\ is_gobi_exists(division)
    IN  IF ~(\A s \in {t.jp, t.kana, t.div0, t.div1} : is_valid_transfer(s)) THEN FALSE
        ELSE IF t.term_type \notin {"eigo", "koyuu"}
                /\ ~(is_jp_valid_str(t.jp) /\ is_jp_valid_str(t.kana)) THEN FALSE
        ELSE IF t.term_type \in {"meishi", "koyuu"}
             THEN ~any_gobi /\ SegmentsValid(t.term_type, jp, kana, division, div_char)
        ELSE IF t.term_type = "kahen"
             THEN jp = <<"c_ku", "h_ru">> /\ kana = <<"h_ku", "h_ru">> /\ division = <<"0">>
        ELSE IF t.term_type = "eigo"
             THEN /\ ~any_gobi
                  /\ \A i \in 1..Len(jp) : isalpha(jp[i]) \/ jp[i] = "'"
                  /\ \/ division = <<"1">> /\ div_type = 0
                     \/ division = <<"0">> /\ div_type = 1
        ELSE /\ all_gobi
             /\ get_gobi(jp) = get_gobi(kana)
             /\ get_gobi(division) = <<"-", "1">>
             /\ GobiFitsType(t.term_type, get_gobi(jp))
             /\ SegmentsValid(t.term_type, remove_gobi(jp), remove_gobi(kana),
                              remove_gobi(division), div_char)

\* Term.__init__ returns rather than raising ValueError
Constructs(t) == is_valid(t, 0) /\ is_valid(t, 1)

----------------------------------------------------------------------------
(* Python's re, as far as the templates built from a Term use it *)

\* A template is ^(ATOMS(?:ALT1|ALT2|...))(.*)$ : atoms, each one character
\* wide (a literal, a class such as [aA], or "."), possibly repeated by "+",
\* followed by one of alts (<< <<>> >> when the template has no alternation).
\* err: re.compile raises re.error.
Template(err, atoms, alts) == [err |-> err, atoms |-> atoms, alts |-> alts]

NoAlts == << <<>> >>

LitAtom(c) == [any |-> FALSE, chars |-> {c}, plus |-> FALSE]

\* [{c.lower()}{c.upper()}]
ClassAtom(c) == [any |-> FALSE, chars |-> {lower(c), upper(c)}, plus |-> FALSE]

AnyAtom == [any |-> TRUE, chars |-> {}, plus |-> FALSE]

RECURSIVE CompileFrom(_, _, _, _)
\* the atoms of the text s put into a pattern, the characters of esc having
\* been escaped with a backslash. Of the characters a Term can hold
\* unescaped, "." and "+" are special to re: "." matches any character, "+"
\* repeats the atom before it and is an error ("nothing to repeat",
\* "multiple repeat") with no unrepeated atom before it.
CompileFrom(s, esc, i, acc) ==
    IF i > Len(s) THEN [err |-> FALSE, atoms |-> acc]
    ELSE IF s[i] \in esc THEN CompileFrom(s, esc, i + 1, Append(acc, LitAtom(s[i])))
    ELSE IF s[i] = "." THEN CompileFrom(s, esc, i + 1, Append(acc, AnyAtom))
    ELSE IF s[i] = "+"
         THEN IF acc = <<>> \/ acc[Len(acc)].plus
              THEN [err |-> TRUE, atoms |-> <<>>]
              ELSE CompileFrom(s, esc, i + 1,
                       [acc EXCEPT ![Len(acc)] = [@ EXCEPT !.plus = TRUE]])
    ELSE CompileFrom(s, esc, i + 1, Append(acc, LitAtom(s[i])))

Compile(s, esc) == CompileFrom(s, esc, 1, <<>>)

AtomTakes(a, c) == a.any \/ c \in a.chars

RECURSIVE RunLength(_, _, _)
\* how many characters of text from pos on the atom a takes in a row
RunLength(a, text, pos) ==
    IF pos <= Len(text) /\ AtomTakes(a, text[pos])
    THEN 1 + RunLength(a, text, pos + 1) ELSE 0

RECURSIVE MatchEnds(_, _, _, _)
RECURSIVE MatchPlus(_, _, _, _, _)
\* the positions after a match of atoms[i..] at text[pos..], in the order
\* the backtracking matcher tries them (a greedy "+" takes the longest first)
MatchEnds(atoms, i, text, pos) ==
    IF i > Len(atoms) THEN <<pos>>
    ELSE IF atoms[i].plus
         THEN MatchPlus(atoms, i, text, pos, RunLength(atoms[i], text, pos))
         ELSE IF pos <= Len(text) /\ AtomTakes(atoms[i], text[pos])
              THEN MatchEnds(atoms, i + 1, text, pos + 1)
              ELSE <<>>

MatchPlus(atoms, i, text, pos, k) ==
    IF k < 1 THEN <<>>
    ELSE MatchEnds(atoms, i + 1, text, pos + k) \o MatchPlus(atoms, i, text, pos, k - 1)

RECURSIVE FirstAlt(_, _, _, _)
\* the first of alts[j..] that text continues with at pos: its index, or 0
FirstAlt(alts, j, text, pos) ==
    IF j > Len(alts) THEN 0
    ELSE IF StartsWith(From(text, pos), alts[j]) THEN j
    ELSE FirstAlt(alts, j + 1, text, pos)

RECURSIVE FirstEnd(_, _, _, _)
\* the end of group 1: the first stem end, in matching order, after which an
\* alternative fits; 0 when there is none
FirstEnd(ends, k, alts, text) ==
    IF k > Len(ends) THEN 0
    ELSE With(FirstAlt(alts, 1, text, ends[k]), LAMBDA j :
             IF j # 0 THEN ends[k] + Len(alts[j])
             ELSE FirstEnd(ends, k + 1, alts, text))

\* re.match(template, text) for a template that compiled: (.*)$ takes
\* whatever follows group 1, so the first way to match group 1 stands
ReMatch(tpl, text) ==
    With(FirstEnd(MatchEnds(tpl.atoms, 1, text, 1), 1, tpl.alts, text), LAMBDA e :
        IF e = 0 THEN [matched |-> FALSE, g1 |-> <<>>, g2 |-> <<>>]
        ELSE [matched |-> TRUE, g1 |-> SubSeq(text, 1, e - 1), g2 |-> From(text, e)])

\* re.match("^(ATOMS)\*?(.*)$", text): group 2 starts after an optional "*"
ReMatchStar(tpl, text) ==
    With(ReMatch(tpl, text), LAMBDA m :
        IF m.matched /\ m.g2 # <<>> /\ Head(m.g2) = "*"
        THEN [m EXCEPT !.g2 = Tail(m.g2)] ELSE m)

----------------------------------------------------------------------------
(* Term: matching template and decomposition *)

\* the characters re_pattern and pre_to_token escape for a proper noun
KoyuuEscaped == {"\\", "$", "(", ")", "*", "?", "+", ".", "[", "]", "{", "}", "|", "^"}

\* gobi_dic of re_pattern
GodanEndings(gobi) ==
    CASE gobi = "h_u" -> <<"h_wa", "h_i", "h_u", "h_e", "h_o", "h_xtu">>
      [] gobi = "h_ku" -> <<"h_ka", "h_ki", "h_ku", "h_ke", "h_ko", "h_i">>
      [] gobi = "h_gu" -> <<"h_ga", "h_gi", "h_gu", "h_ge", "h_go", "h_i">>
      [] gobi = "h_su" -> <<"h_sa", "h_si", "h_su", "h_se", "h_so">>
      [] gobi = "h_tu" -> <<"h_ta", "h_ti", "h_tu", "h_te", "h_to", "h_xtu">>
      [] gobi = "h_nu" -> <<"h_na", "h_ni", "h_nu", "h_ne", "h_no", "h_n">>
      [] gobi = "h_bu" -> <<"h_ba", "h_bi", "h_bu", "h_be", "h_bo", "h_n">>
      [] gobi = "h_mu" -> <<"h_ma", "h_mi", "h_mu", "h_me", "h_mo", "h_n">>
      [] gobi = "h_ru" -> <<"h_ra", "h_ri", "h_ru", "h_re", "h_ro", "h_xtu">>

\* the endings of an adjective in re_pattern
KeiyouEndings ==
    << <<"h_i">>, <<"h_ku">>, <<"h_ka", "h_xtu">>, <<"h_ke", "h_re", "h_ba">>,
       <<"h_ga", "h_ru">>, <<"h_ga", "h_ri">>, <<"h_ga", "h_ra">>,
       <<"h_ga", "h_re">>, <<"h_ga", "h_ro">>, <<"h_sa">>, <<"h_ge">>,
       <<"h_so", "h_u">>, <<"h_sa", "h_so", "h_u">>, <<"h_su", "h_gi">>,
       <<"c_su", "h_gi">> >>

\* kahen_dic of kahen_to_token, in its order: surface form, reading
KahenForms ==
    << <<<<"c_ku", "h_ru">>, <<"h_ku", "h_ru">>>>,
       <<<<"c_ku", "h_na", "h_i">>, <<"h_ko", "h_na", "h_i">>>>,
       <<<<"c_ku", "h_na", "h_ku">>, <<"h_ko", "h_na", "h_ku">>>>,
       <<<<"c_ku", "h_na", "h_ka", "h_xtu">>, <<"h_ko", "h_na", "h_ka", "h_xtu">>>>,
       <<<<"c_ku", "h_na", "h_ke", "h_re", "h_ba">>, <<"h_ko", "h_na", "h_ke", "h_re", "h_ba">>>>,
       <<<<"c_ku", "h_na", "h_sa">>, <<"h_ki", "h_na", "h_sa", "h_i">>>>,
       <<<<"c_ku", "h_ta">>, <<"h_ki", "h_ta">>>>,
       <<<<"c_ku", "h_te">>, <<"h_ki", "h_te">>>>,
       <<<<"c_ku", "h_ra", "h_re">>, <<"h_ko", "h_ra", "h_re">>>>,
       <<<<"c_ku", "h_i">>, <<"h_ko", "h_i">>>>,
       <<<<"c_ku", "h_yo">>, <<"h_ko", "h_yo">>>> >>

\* Term.re_pattern(): the template, compiled
re_pattern(t) ==
    IF t.term_type = "kahen"
    THEN Template(FALSE, <<>>, [k \in 1..Len(KahenForms) |-> KahenForms[k][1]])
    ELSE IF t.term_type = "eigo"
    THEN Template(FALSE, [k \in 1..Len(t.jp) |-> ClassAtom(t.jp[k])], NoAlts)
    ELSE With(Compile(IF t.term_type \in {"meishi", "koyuu"} THEN remove_seps(t.jp)
                      ELSE remove_seps(remove_gobi(t.jp)),
                      IF t.term_type = "koyuu" THEN KoyuuEscaped ELSE {}),
              LAMBDA c :
                  Template(c.err, c.atoms,
                      CASE t.term_type = "godan" ->
                               With(GodanEndings(get_gobi(t.jp)[1]), LAMBDA cs :
                                   [k \in 1..Len(cs) |-> <<cs[k]>>])
                        [] t.term_type = "keiyou" -> KeiyouEndings
                        [] OTHER -> NoAlts))

\* what a decomposition returns or raises
Raised == [raised |-> TRUE]

PreToken(jp_list, kana_list, div_list, leftover) ==
    [raised |-> FALSE, jp_list |-> jp_list, kana_list |-> kana_list,
     div_list |-> div_list, leftover |-> leftover]

RECURSIVE KahenFrom(_, _)
\* the loop of kahen_to_token from entry k on
KahenFrom(origin_str, k) ==
    IF k > Len(KahenForms) THEN Raised
    ELSE LET key == KahenForms[k][1]
             value == KahenForms[k][2]
         IN  IF StartsWith(origin_str, key)
             THEN PreToken(<<<<"c_ku">>, Tail(key)>>, <<<<Head(value)>>, Tail(value)>>,
                           <<<<"0">>, <<"-", "1">>>>, From(origin_str, Len(key) + 1))
             ELSE KahenFrom(origin_str, k + 1)

kahen_to_token(origin_str) == KahenFrom(origin_str, 1)

\* Term.pre_to_token(origin_str, div_type), div_type in 0, 1, 2
pre_to_token(t, origin_str, div_type) ==
    IF t.term_type = "kahen" THEN kahen_to_token(origin_str)
    ELSE
    With(IF div_type = 0 THEN "\\" ELSE "/", LAMBDA needless_div_char :
    With(IF div_type = 0 THEN "/" ELSE "\\", LAMBDA div_char :
    With(remove_gobi(div_remove(t.jp, needless_div_char)), LAMBDA jp_gokan :
    With(remove_gobi(div_remove(t.kana, needless_div_char)), LAMBDA kana_gokan :
    With(remove_gobi(div_remove(IF div_type = 0 THEN t.div0 ELSE t.div1, needless_div_char)),
         LAMBDA div_gokan :
    With(IF t.term_type = "eigo"
         THEN [err |-> FALSE, atoms |-> [k \in 1..Len(jp_gokan) |-> ClassAtom(jp_gokan[k])]]
         ELSE Compile(remove_seps(jp_gokan),
                      IF t.term_type = "koyuu" THEN KoyuuEscaped ELSE {}),
         LAMBDA pattern :
    IF pattern.err THEN Raised
    ELSE
    With(IF t.term_type \in {"eigo", "koyuu"}
         THEN ReMatch(Template(FALSE, pattern.atoms, NoAlts), origin_str)
         ELSE ReMatchStar(Template(FALSE, pattern.atoms, NoAlts), origin_str),
         LAMBDA result :
    IF ~result.matched THEN Raised
    ELSE PreToken(IF t.term_type # "eigo" THEN div_split(jp_gokan, div_char)
                  ELSE div_split(result.g1, div_char),
                  div_split(kana_gokan, div_char),
                  div_split(div_gokan, div_char),
                  result.g2))))))))

----------------------------------------------------------------------------
(* Tokens and the three decompositions *)

Token0(jp, kana, alignment) == [jp |-> jp, kana |-> kana, alignment |-> alignment]

Token1(jp, up_kana, down_kana) == [jp |-> jp, up_kana |-> up_kana, down_kana |-> down_kana]

Token2(jp, kana, is_skip) == [jp |-> jp, kana |-> kana, is_skip |-> is_skip]

\* the token of a character passed through, per shape
PlainToken(sh, jp) ==
    CASE sh = 0 -> Token0(jp, None, 0)
      [] sh = 1 -> Token1(jp, None, None)
      [] sh = 2 -> Token2(jp, None, FALSE)

DigitValue(c) ==
    CASE c = "0" -> 0 [] c = "1" -> 1 [] c = "2" -> 2 [] c = "3" -> 3 [] c = "5" -> 5

RECURSIVE DigitsValue(_)
DigitsValue(s) == IF s = <<>> THEN 0 ELSE 10 * DigitsValue(SubSeq(s, 1, Len(s) - 1)) + DigitValue(s[Len(s)])

AllDigits(s) == s # <<>> /\ \A i \in 1..Len(s) : isdigit(s[i])

\* int(s) returns rather than raising ValueError: an optional sign, digits
IsInt(s) == AllDigits(s) \/ (s # <<>> /\ Head(s) \in {"-", "+"} /\ AllDigits(Tail(s)))

int(s) ==
    IF Head(s) = "-" THEN 0 - DigitsValue(Tail(s))
    ELSE IF Head(s) = "+" THEN DigitsValue(Tail(s))
    ELSE DigitsValue(s)

Returned(toks) == [raised |-> FALSE, tokens |-> toks]

\* the leftover token every to_token appends
WithLeftover(sh, toks, leftover) ==
    IF Len(leftover) > 0 THEN Append(toks, PlainToken(sh, remove_seps(leftover))) ELSE toks

RECURSIVE Token0Loop(_, _, _)
\* the for loop of to_token0 from slot i on
Token0Loop(p, i, acc) ==
    IF i > Len(p.jp_list) THEN Returned(WithLeftover(0, acc, p.leftover))
    ELSE IF i > Len(p.div_list) \/ ~IsInt(p.div_list[i]) THEN Raised
    ELSE IF int(p.div_list[i]) \in {0, 1, 2}
         THEN IF i > Len(p.kana_list) THEN Raised
              ELSE Token0Loop(p, i + 1,
                       Append(acc, Token0(remove_seps(p.jp_list[i]),
                                          Some(remove_seps(p.kana_list[i])),
                                          int(p.div_list[i]))))
         ELSE Token0Loop(p, i + 1, Append(acc, Token0(remove_seps(p.jp_list[i]), None, 0)))

\* Term.to_token0(origin_str)
to_token0(t, origin_str) ==
    With(pre_to_token(t, origin_str, 0), LAMBDA p :
        IF p.raised THEN Raised ELSE Token0Loop(p, 1, <<>>))

RECURSIVE Token1Loop(_, _, _)
\* the while loop of to_token1 from slot i on
Token1Loop(p, i, acc) ==
    IF i > Len(p.jp_list) THEN Returned(WithLeftover(1, acc, p.leftover))
    ELSE IF i > Len(p.div_list) \/ ~IsInt(p.div_list[i]) THEN Raised
    ELSE IF int(p.div_list[i]) = 0
         THEN IF i + 1 <= Len(p.jp_list) /\ (i + 1 > Len(p.div_list) \/ ~IsInt(p.div_list[i + 1]))
              THEN Raised
              ELSE IF i + 1 <= Len(p.jp_list) /\ int(p.div_list[i + 1]) = 0
                   THEN IF i + 1 > Len(p.kana_list) THEN Raised
                        ELSE Token1Loop(p, i + 2,
                                 Append(acc, Token1(remove_seps(p.jp_list[i] \o p.jp_list[i + 1]),
                                                    Some(remove_seps(p.kana_list[i])),
                                                    Some(remove_seps(p.kana_list[i + 1])))))
                   ELSE IF i > Len(p.kana_list) THEN Raised
                        ELSE Token1Loop(p, i + 1,
                                 Append(acc, Token1(remove_seps(p.jp_list[i]),
                                                    Some(remove_seps(p.kana_list[i])), None)))
         ELSE Token1Loop(p, i + 1, Append(acc, Token1(remove_seps(p.jp_list[i]), None, None)))

\* Term.to_token1(origin_str)
to_token1(t, origin_str) ==
    With(pre_to_token(t, origin_str, 1), LAMBDA p :
        IF p.raised THEN Raised ELSE Token1Loop(p, 1, <<>>))

\* the token to_token2 appends for a finished run
RunToken(current_jp, current_kana, current_div) ==
    IF current_div = 0
    THEN Token2(remove_seps(current_jp), Some(remove_seps(current_kana)), FALSE)
    ELSE Token2(remove_seps(current_jp), None, FALSE)

\* a loop that appends one token for every slot
Token2LoopUnmerged(p, i, current_jp, current_kana, current_div, acc) ==
    Returned(WithLeftover(2,
        [k \in 1..Len(p.jp_list) |->
            RunToken(p.jp_list[k], p.kana_list[k], int(p.div_list[k]))],
        p.leftover))

RECURSIVE Token2Loop(_, _, _, _, _, _)
\* the while loop of to_token2 from slot i on
Token2Loop(p, i, current_jp, current_kana, current_div, acc) ==
    IF i > Len(p.jp_list)
    THEN Returned(WithLeftover(2,
             IF Len(current_jp) # 0
             THEN Append(acc, RunToken(current_jp, current_kana, current_div)) ELSE acc,
             p.leftover))
    ELSE IF i > Len(p.div_list) \/ ~IsInt(p.div_list[i]) THEN Raised
    ELSE IF i > Len(p.kana_list) THEN Raised
    ELSE IF int(p.div_list[i]) # current_div
         THEN Token2Loop(p, i + 1, p.jp_list[i], p.kana_list[i], int(p.div_list[i]),
                  IF Len(current_jp) # 0
                  THEN Append(acc, RunToken(current_jp, current_kana, current_div)) ELSE acc)
         ELSE Token2Loop(p, i + 1, current_jp \o p.jp_list[i],
                  current_kana \o p.kana_list[i], current_div, acc)

\* Term.to_token2(origin_str)
to_token2(t, origin_str) ==
    With(pre_to_token(t, origin_str, 2), LAMBDA p :
        IF p.raised THEN Raised ELSE Token2Loop(p, 1, <<>>, <<>>, 0, <<>>))

\* to_token0, to_token1 or to_token2 by shape
to_token(sh, t, origin_str) ==
    CASE sh = 0 -> to_token0(t, origin_str)
      [] sh = 1 -> to_token1(t, origin_str)
      [] sh = 2 -> to_token2(t, origin_str)

----------------------------------------------------------------------------
(* Term.auto_divide *)

\* len(choices) >= 2000: the cap on the choices of one run
ChoiceCap == 2000

RECURSIVE JoinWith(_, _)
\* str.join(sep, parts)
JoinWith(parts, sep) ==
    IF parts = <<>> THEN <<>>
    ELSE IF Len(parts) = 1 THEN parts[1]
    ELSE parts[1] \o sep \o JoinWith(Tail(parts), sep)

RECURSIVE Split(_, _)
\* s.split(c) for a character c
Split(s, c) ==
    IF \A i \in 1..Len(s) : s[i] # c THEN <<s>>
    ELSE With(CHOOSE i \in 1..Len(s) : s[i] = c /\ \A j \in 1..(i - 1) : s[j] # c, LAMBDA i :
             <<SubSeq(s, 1, i - 1)>> \o Split(From(s, i + 1), c))

RECURSIVE RunsFrom(_, _, _)
\* the loop that cuts the stem into runs of kana and runs of other
\* characters, from character i on, cur being current_token
RunsFrom(s, i, cur) ==
    IF i > Len(s) THEN <<cur>>
    ELSE IF is_kana(s[i]) = cur.kana
         THEN RunsFrom(s, i + 1, [cur EXCEPT !.text = Append(@, s[i])])
         ELSE <<cur>> \o RunsFrom(s, i + 1, [text |-> <<s[i]>>, kana |-> is_kana(s[i])])

RECURSIVE KanaGroups(_, _, _, _)
\* re.match of the pattern made of the runs i.. ("(text)" for a run of
\* kana, "(.+)" for another) on text: the groups, n being the length the
\* greedy (.+) of run i tries next
KanaGroups(runs, i, text, n) ==
    IF i > Len(runs) THEN [ok |-> text = <<>>, groups |-> <<>>]
    ELSE IF runs[i].kana
    THEN IF ~StartsWith(text, runs[i].text) THEN [ok |-> FALSE, groups |-> <<>>]
         ELSE With(KanaGroups(runs, i + 1, From(text, Len(runs[i].text) + 1),
                              Len(text) - Len(runs[i].text)),
                   LAMBDA m : [ok |-> m.ok, groups |-> <<runs[i].text>> \o m.groups])
    ELSE IF n < 1 THEN [ok |-> FALSE, groups |-> <<>>]
    ELSE With(KanaGroups(runs, i + 1, From(text, n + 1), Len(text) - n), LAMBDA m :
             IF m.ok THEN [ok |-> TRUE, groups |-> <<Take(text, n)>> \o m.groups]
             ELSE KanaGroups(runs, i, text, n - 1))

\* combo number n, from 0, of itertools.product(["/", "/\\", ""], repeat=repeat)
Combo(n, repeat) ==
    [k \in 1..repeat |->
        <<<<"/">>, <<"/", "\\">>, <<>>>>[((n \div (3 ^ (repeat - k))) % 3) + 1]]

RECURSIVE generate_insertions(_, _, _)
\* the lists generate_insertions yields, in the order of
\* itertools.combinations: the index sets that hold the first position first
generate_insertions(origin_iter, fill_term, fill_count) ==
    IF fill_count = 0 THEN <<origin_iter>>
    ELSE IF origin_iter = <<>> THEN <<[k \in 1..fill_count |-> fill_term]>>
    ELSE With(generate_insertions(origin_iter, fill_term, fill_count - 1), LAMBDA a :
         With(generate_insertions(Tail(origin_iter), fill_term, fill_count), LAMBDA b :
             [k \in 1..Len(a) |-> <<fill_term>> \o a[k]]
             \o [k \in 1..Len(b) |-> <<Head(origin_iter)>> \o b[k]]))

\* str.join("", chain.from_iterable(zip_longest(chars, seps, fillvalue="")))
Interleave(chars, seps) ==
    Join([k \in 1..(IF Len(chars) > Len(seps) THEN Len(chars) ELSE Len(seps)) |->
             (IF k <= Len(chars) THEN <<chars[k]>> ELSE <<>>)
             \o (IF k <= Len(seps) THEN seps[k] ELSE <<>>)])

\* the body of the loop over kana_combo: the choice appended, or the
\* mismatch of lengths on which auto_divide returns []
Choice(jp_choice, kana_choice) ==
    With(Split(Replace(jp_choice, <<"\\">>, <<>>), "/"), LAMBDA jp_div0 :
    With(Split(Replace(kana_choice, <<"\\">>, <<>>), "/"), LAMBDA kana_div0 :
        IF Len(jp_div0) # Len(kana_div0) THEN [mismatch |-> TRUE, choice |-> <<>>]
        ELSE [mismatch |-> FALSE,
              choice |->
                  <<jp_choice, kana_choice,
                    JoinWith([i \in 1..Len(jp_div0) |->
                                 IF Len(jp_div0[i]) = 1 THEN <<"0">>
                                 ELSE IF Len(kana_div0[i]) <= Len(jp_div0[i]) THEN <<"2">>
                                 ELSE <<"1">>], <<"/">>),
                    JoinWith([i \in 1..Len(Split(Replace(jp_choice, <<"/">>, <<>>), "\\")) |->
                                 <<"0">>], <<"\\">>)>>]))

\* what auto_divide returns or raises; counts holds, for each run,
\* len(choices) when the run's choices are put into part_list
Outcome(kind, value, counts) == [kind |-> kind, value |-> value, counts |-> counts]

RECURSIVE ChoicesFrom(_, _, _, _, _)
\* the loop over itertools.product for one run of other characters, from
\* combo number n on
ChoicesFrom(jp_gokan, kana_gokan, repeat, n, choices) ==
    IF n >= 3 ^ repeat THEN Outcome("list", choices, <<>>)
    ELSE IF Len(choices) >= ChoiceCap THEN Outcome("AutoDivisionChoiceOverflowError", <<>>, <<>>)
    ELSE With(Combo(n, repeat), LAMBDA combo :
        IF Cardinality({k \in 1..repeat : combo[k] = <<"/", "\\">>}) > 1
        THEN ChoicesFrom(jp_gokan, kana_gokan, repeat, n + 1, choices)
        ELSE IF Len(kana_gokan) - Len(jp_gokan) < 0
        THEN ChoicesFrom(jp_gokan, kana_gokan, repeat, n + 1,
                         Append(choices, <<jp_gokan, kana_gokan, <<"1">>, <<"0">>>>))
        ELSE With(generate_insertions(combo, <<>>, Len(kana_gokan) - Len(jp_gokan)),
                  LAMBDA kana_combos :
             With([k \in 1..Len(kana_combos) |->
                      Choice(Interleave(jp_gokan, combo),
                             Interleave(kana_gokan, kana_combos[k]))],
                  LAMBDA new :
                 IF \E k \in 1..Len(new) : new[k].mismatch THEN Outcome("empty", <<>>, <<>>)
                 ELSE ChoicesFrom(jp_gokan, kana_gokan, repeat, n + 1,
                                  choices \o [k \in 1..Len(new) |-> new[k].choice]))))

\* list(dict.fromkeys(part)): the first of equal choices stays
Dedupe(part) ==
    With(SelectSeq([k \in 1..Len(part) |-> <<k, part[k]>>],
                   LAMBDA p : \A j \in 1..(p[1] - 1) : part[j] # p[2]),
         LAMBDA kept : [k \in 1..Len(kept) |-> kept[k][2]])

RECURSIVE PartsFrom(_, _, _, _, _)
\* the loop that fills part_list, from run i on
PartsFrom(runs, kana_gokan_list, i, part_list, counts) ==
    IF i > Len(runs) THEN Outcome("list", part_list, counts)
    ELSE With(IF runs[i].kana
              THEN Outcome("list",
                           <<<<runs[i].text, kana_gokan_list[i], <<"-", "1">>, <<"-", "1">>>>>>,
                           <<>>)
              ELSE IF Len(runs[i].text) = 1 \/ Len(kana_gokan_list[i]) = 1
              THEN Outcome("list", <<<<runs[i].text, kana_gokan_list[i], <<"0">>, <<"0">>>>>>,
                           <<>>)
              ELSE ChoicesFrom(runs[i].text, kana_gokan_list[i],
                               IF Len(runs[i].text) < Len(kana_gokan_list[i])
                               THEN Len(runs[i].text) - 1 ELSE Len(kana_gokan_list[i]) - 1,
                               0, <<>>),
              LAMBDA r :
                  IF r.kind # "list" THEN r
                  ELSE PartsFrom(runs, kana_gokan_list, i + 1, Append(part_list, r.value),
                                 Append(counts, Len(r.value))))

RECURSIVE Product(_)
\* itertools.product(*part_list), the last part changing fastest
Product(part_list) ==
    IF part_list = <<>> THEN << <<>> >>
    ELSE With(Product(Tail(part_list)), LAMBDA rest :
             [n \in 1..(Len(Head(part_list)) * Len(rest)) |->
                 <<Head(part_list)[((n - 1) \div Len(rest)) + 1]>>
                 \o rest[((n - 1) % Len(rest)) + 1]])

\* the quadruple appended to result_list for one combo of choices
Result(combo, jp_list, kana_list) ==
    <<JoinWith([i \in 1..Len(combo) |-> combo[i][1]], <<"/", "\\">>)
          \o (IF jp_list[2] # None THEN <<"*">> \o jp_list[2][1] ELSE <<>>),
      JoinWith([i \in 1..Len(combo) |-> combo[i][2]], <<"/", "\\">>)
          \o (IF jp_list[2] # None THEN <<"*">> \o kana_list[2][1] ELSE <<>>),
      JoinWith([i \in 1..Len(combo) |-> combo[i][3]], <<"/">>)
          \o (IF jp_list[2] # None THEN <<"*", "-", "1">> ELSE <<>>),
      JoinWith([i \in 1..Len(combo) |-> combo[i][4]], <<"\\">>)
          \o (IF jp_list[2] # None THEN <<"*", "-", "1">> ELSE <<>>)>>

\* auto_divide from line 592 on: jp_list and kana_list hold the stem and,
\* as <<ending>> or None, the ending
Divide(jp_list, kana_list) ==
    IF jp_list[1] = <<>> THEN Outcome("IndexError", <<>>, <<>>)
    ELSE
    With(RunsFrom(jp_list[1], 2, [text |-> <<jp_list[1][1]>>, kana |-> is_kana(jp_list[1][1])]),
         LAMBDA jp_gokan_list :
    With(KanaGroups(jp_gokan_list, 1, kana_list[1], Len(kana_list[1])), LAMBDA result :
        IF ~result.ok THEN Outcome("None", <<>>, <<>>)
        ELSE With(PartsFrom(jp_gokan_list, result.groups, 1, <<>>, <<>>), LAMBDA parts :
            IF parts.kind = "empty" THEN Outcome("list", <<>>, <<>>)
            ELSE IF parts.kind # "list" THEN parts
            ELSE With(Product([i \in 1..Len(parts.value) |-> Dedupe(parts.value[i])]),
                      LAMBDA combos :
                Outcome("list",
                    [c \in 1..Len(combos) |-> Result(combos[c], jp_list, kana_list)],
                    parts.counts)))))

\* Term.auto_divide(jp, kana, term_type)
auto_divide(jp, kana, term_type) ==
    IF Len(jp) = 0 \/ Len(kana) = 0 THEN Outcome("None", <<>>, <<>>)
    ELSE IF term_type # "eigo" /\ ~(is_jp_str(jp) /\ is_jp_str(kana))
    THEN Outcome("AutoDivisionDisabledError", <<>>, <<>>)
    ELSE IF term_type = "kahen"
    THEN IF jp = <<"c_ku", "h_ru">> /\ kana = <<"h_ku", "h_ru">>
         THEN Outcome("list", <<<<jp, kana, <<"0">>, <<"0">>>>>>, <<>>)
         ELSE Outcome("None", <<>>, <<>>)
    ELSE IF term_type = "eigo" THEN Outcome("list", <<<<jp, kana, <<"1">>, <<"0">>>>>>, <<>>)
    ELSE IF term_type \in {"meishi", "koyuu"} THEN Divide(<<jp, None>>, <<kana, None>>)
    ELSE IF term_type \notin TermTypes THEN Outcome("None", <<>>, <<>>)
    ELSE With(IF term_type = "sahen" THEN 2 ELSE 1, LAMBDA n :
         With(IF n >= Len(jp) THEN jp ELSE From(jp, Len(jp) - n + 1), LAMBDA jp_gobi :
         With(IF n >= Len(kana) THEN kana ELSE From(kana, Len(kana) - n + 1), LAMBDA kana_gobi :
             IF jp_gobi # kana_gobi \/ ~GobiFitsType(term_type, jp_gobi)
             THEN Outcome("None", <<>>, <<>>)
             ELSE Divide(<<Take(jp, Len(jp) - n), Some(jp_gobi)>>,
                         <<Take(kana, Len(kana) - n), Some(kana_gobi)>>))))

----------------------------------------------------------------------------
(* Dictionary: the rows *)

\* a row of Dictionary.dic: the DataFrame's index label and the six columns
Row(id, t) == [id |-> id, term |-> t]

Ids(d) == {d[k].id : k \in 1..Len(d)}

RECURSIVE CheckFrom(_, _)
\* Dictionary.check on a table that has the six columns, whose rows read_csv
\* labelled 0, 1, ...: the rows Term accepts, under their labels
CheckFrom(table, k) ==
    IF k > Len(table) THEN <<>>
    ELSE (IF Constructs(table[k]) THEN <<Row(k - 1, table[k])>> ELSE <<>>)
         \o CheckFrom(table, k + 1)

load_from_csv(table) == CheckFrom(table, 1)

\* Dictionary.__init__: self.index
InitialIndex(d) ==
    IF Len(d) > 0 THEN (CHOOSE x \in Ids(d) : \A y \in Ids(d) : y <= x) + 1 ELSE 0

\* Dictionary.is_exists(term)
is_exists(d, t) == \E k \in 1..Len(d) : d[k].term = t

\* a drop by position in place of the drop by label
DropRowAt(d, id) == [k \in 1..(Len(d) - 1) |-> IF k <= id THEN d[k] ELSE d[k + 1]]

RECURSIVE DropRow(_, _)
\* DataFrame.drop(id)
DropRow(d, id) ==
    IF d = <<>> THEN <<>>
    ELSE (IF Head(d).id = id THEN <<>> ELSE <<Head(d)>>) \o DropRow(Tail(d), id)

\* self.dic.loc[id] = row: replaces the row labelled id, or adds one at the end
SetRow(d, id, t) ==
    IF id \in Ids(d)
    THEN [k \in 1..Len(d) |-> IF d[k].id = id THEN Row(id, t) ELSE d[k]]
    ELSE Append(d, Row(id, t))

----------------------------------------------------------------------------
(* Dictionary: search *)

len_jp(t) == Len(remove_seps(t.jp))

len_jp_gokan(t) == Len(remove_seps(remove_gobi(t.jp)))

\* the row filter of search_to_token0/1/2
Filtered(d, init_char, priority) ==
    SelectSeq(d, LAMBDA r :
        /\ r.term.jp # <<>>
        /\ lower(r.term.jp[1]) = lower(init_char)
        /\ r.term.pri = priority)

\* a sort by len_jp alone
SortsBeforeByLength(a, b) == len_jp(a.term) > len_jp(b.term)

\* row a comes before row b under sort_values(by len_jp, len_jp_gokan
\* descending): strictly, by the keys alone
SortsBefore(a, b) ==
    \/ len_jp(a.term) > len_jp(b.term)
    \/ len_jp(a.term) = len_jp(b.term) /\ len_jp_gokan(a.term) > len_jp_gokan(b.term)

RECURSIVE SortRows(_)
\* sort_values: a stable sort, rows with equal keys keep their order
SortRows(rows) ==
    IF rows = <<>> THEN <<>>
    ELSE LET k == CHOOSE k \in 1..Len(rows) :
                      /\ \A j \in 1..Len(rows) : ~SortsBefore(rows[j], rows[k])
                      /\ \A j \in 1..(k - 1) : SortsBefore(rows[k], rows[j])
         IN  <<rows[k]>> \o SortRows(SubSeq(rows, 1, k - 1) \o SubSeq(rows, k + 1, Len(rows)))

\* what a search returns; hit is the id of the row that matched
SearchResult(found, toks, rest, hit) ==
    [raised |-> FALSE, found |-> found, tokens |-> toks, rest |-> rest, hit |-> hit]

NoHit == 0 - 1

RECURSIVE SearchLoop(_, _, _, _)
\* the for loop over the sorted rows from row k on
SearchLoop(sh, rows, k, ln) ==
    IF k > Len(rows) THEN SearchResult(FALSE, <<>>, ln, NoHit)
    ELSE With(re_pattern(rows[k].term), LAMBDA pattern :
         IF pattern.err THEN Raised
         ELSE With(ReMatch(pattern, ln), LAMBDA result :
              IF result.matched
              THEN With(to_token(sh, rows[k].term, result.g1), LAMBDA toks :
                       IF toks.raised THEN Raised
                       ELSE SearchResult(TRUE, toks.tokens, result.g2, rows[k].id))
              ELSE SearchLoop(sh, rows, k + 1, ln)))

\* Dictionary.search_to_token0/1/2(line, priority); line[0] raises IndexError
\* on an empty line
search_to_token(sh, d, ln, priority) ==
    IF ln = <<>> THEN Raised
    ELSE SearchLoop(sh, SortRows(Filtered(d, ln[1], priority)), 1, ln)

----------------------------------------------------------------------------
(* Dictionary: the scan loop of line_to_tokens0/1/2 *)

RECURSIVE FieldEnd(_, _)
\* the first position from i on that holds ";" or ")", or Len(s) + 1
FieldEnd(s, i) ==
    IF i > Len(s) \/ s[i] \in {";", ")"} THEN i ELSE FieldEnd(s, i + 1)

\* re.match(PATTERNS["custom"], s): ( then four non-empty fields without
\* ";" or ")", separated by ";", then ), then the rest
CustomMatch(s) ==
    LET e1 == FieldEnd(s, 2)
        e2 == FieldEnd(s, e1 + 1)
        e3 == FieldEnd(s, e2 + 1)
        e4 == FieldEnd(s, e3 + 1)
        ok == /\ s # <<>> /\ s[1] = "("
              /\ e1 > 2 /\ e1 <= Len(s) /\ s[e1] = ";"
              /\ e2 > e1 + 1 /\ e2 <= Len(s) /\ s[e2] = ";"
              /\ e3 > e2 + 1 /\ e3 <= Len(s) /\ s[e3] = ";"
              /\ e4 > e3 + 1 /\ e4 <= Len(s) /\ s[e4] = ")"
    IN  IF ok
        THEN [matched |-> TRUE,
              args |-> <<SubSeq(s, 2, e1 - 1), SubSeq(s, e1 + 1, e2 - 1),
                         SubSeq(s, e2 + 1, e3 - 1), SubSeq(s, e3 + 1, e4 - 1)>>,
              rest |-> From(s, e4 + 1)]
        ELSE [matched |-> FALSE, args |-> <<>>, rest |-> <<>>]

RECURSIVE DigitsEnd(_, _)
\* the first position from i on that holds no digit
DigitsEnd(s, i) == IF i > Len(s) \/ ~isdigit(s[i]) THEN i ELSE DigitsEnd(s, i + 1)

\* re.match(PATTERNS["priority"], s): [ digits ] rest
PriorityMatch(s) ==
    LET e == DigitsEnd(s, 2)
    IN  IF s # <<>> /\ s[1] = "[" /\ e > 2 /\ e <= Len(s) /\ s[e] = "]"
        THEN [matched |-> TRUE, digits |-> SubSeq(s, 2, e - 1), rest |-> From(s, e + 1)]
        ELSE [matched |-> FALSE, digits |-> <<>>, rest |-> <<>>]

\* the token the $ span emits for one character
SpanToken(sh, c) == IF sh = 2 THEN Token2(<<c>>, None, TRUE) ELSE PlainToken(sh, <<c>>)

\* a span that ends where it starts
SpanEndAtOnce(s, i) == i

RECURSIVE SpanEnd(_, _)
\* the first position from i on that holds "$", or Len(s) + 1
SpanEnd(s, i) == IF i > Len(s) \/ s[i] = "$" THEN i ELSE SpanEnd(s, i + 1)

\* what one pass of the while loop did: the branch taken, whether the pass
\* went on to search_to_token and with what, and what came of it
Step(rule, searched, priority, at, found, hit) ==
    [rule |-> rule, searched |-> searched, priority |-> priority, at |-> at,
     found |-> found, hit |-> hit]

NoStep == Step("none", FALSE, 0, <<>>, FALSE, NoHit)

Pass(raised, rem, toks, st) ==
    [raised |-> raised, remaining_line |-> rem, tokens |-> toks, step |-> st]

\* a pass that searches at priority 0 whatever the directive said
SearchPassDefault(sh, d, rule, rem, priority, toks) ==
    With(search_to_token(sh, d, rem, 0), LAMBDA r :
        IF r.raised
        THEN Pass(TRUE, rem, toks, Step(rule, TRUE, 0, rem, FALSE, NoHit))
        ELSE IF r.found
        THEN Pass(FALSE, r.rest, toks \o r.tokens, Step(rule, TRUE, 0, rem, TRUE, r.hit))
        ELSE Pass(FALSE, Tail(r.rest), Append(toks, PlainToken(sh, <<Head(r.rest)>>)),
                  Step(rule, TRUE, 0, rem, FALSE, NoHit)))

\* the end of a pass that reaches search_to_token: the call and the lines
\* after it
SearchPass(sh, d, rule, rem, priority, toks) ==
    With(search_to_token(sh, d, rem, priority), LAMBDA r :
        IF r.raised
        THEN Pass(TRUE, rem, toks, Step(rule, TRUE, priority, rem, FALSE, NoHit))
        ELSE IF r.found
        THEN Pass(FALSE, r.rest, toks \o r.tokens,
                  Step(rule, TRUE, priority, rem, TRUE, r.hit))
        ELSE Pass(FALSE, Tail(r.rest), Append(toks, PlainToken(sh, <<Head(r.rest)>>)),
                  Step(rule, TRUE, priority, rem, FALSE, NoHit)))

\* the try block with to_token0 in all three shapes
CustomTokensShape0(sh, args) ==
    With(MkTerm(args[1], args[2], args[3], args[4], "koyuu", 0), LAMBDA t :
        IF ~Constructs(t) THEN Raised
        ELSE to_token(0, t, remove_seps(t.jp)))

\* the try block of the custom branch: the tokens of the transient term
CustomTokens(sh, args) ==
    With(MkTerm(args[1], args[2], args[3], args[4], "koyuu", 0), LAMBDA term :
        IF ~Constructs(term) THEN Raised
        ELSE to_token(sh, term, remove_seps(term.jp)))

\* the branch a pass takes, by the tests of the loop in their order
Branch(rem) ==
    IF Take(rem, 2) \in {<<"$", "$">>, <<"(", "(">>, <<")", ")">>, <<"[", "[">>, <<"]", "]">>}
    THEN "double"
    ELSE IF CustomMatch(rem).matched THEN "custom"
    ELSE IF PriorityMatch(rem).matched THEN "priority"
    ELSE IF rem[1] = "$" THEN "dollar"
    ELSE "search"

\* one pass of the while loop of line_to_tokens0/1/2, remaining_line not empty
LoopPass(sh, d, rem, toks) ==
    With(Branch(rem), LAMBDA branch :
    With(CustomMatch(rem), LAMBDA custom_result :
    With(PriorityMatch(rem), LAMBDA priority_result :
    With(IF branch = "custom" THEN CustomTokens(sh, custom_result.args) ELSE Raised,
         LAMBDA new :
    IF branch = "custom" /\ ~new.raised
    THEN Pass(FALSE, custom_result.rest, toks \o new.tokens,
              Step("custom", FALSE, 0, <<>>, FALSE, NoHit))
    ELSE IF branch = "dollar"
    THEN With(SpanEnd(rem, 2), LAMBDA e :
             Pass(FALSE, From(rem, e + 1),
                  toks \o [k \in 1..(e - 2) |-> SpanToken(sh, rem[k + 1])],
                  Step("dollar", FALSE, 0, <<>>, FALSE, NoHit)))
    ELSE SearchPass(sh, d,
             IF branch = "custom" THEN "custom_failed" ELSE branch,
             CASE branch = "double" -> Tail(rem)
               [] branch = "custom" -> custom_result.rest
               [] branch = "priority" -> priority_result.rest
               [] OTHER -> rem,
             IF branch = "priority" THEN int(priority_result.digits) ELSE 0,
             toks)))))

----------------------------------------------------------------------------
(* Bounds and inputs *)

\* rows in a table loaded at start
MaxRows == 2

\* append is not called once the id counter has reached this
MaxIndex == 3

\* pieces an input line is put together from
MaxPieces == 2

\* the scan loop is not followed once it holds more tokens than this
MaxTokens == 16

\* 東 (ひがし), a noun
TermTou == MkTerm(<<"c_tou">>, <<"h_hi">>, <<"0">>, <<"0">>, "meishi", 0)

\* 東/京 (と/き), a noun of two slots, one slot under scheme 1
TermToukyou ==
    MkTerm(<<"c_tou", "/", "c_kyo">>, <<"h_to", "/", "h_ki">>, <<"0", "/", "0">>, <<"2">>,
           "meishi", 0)

\* 東京 with another reading, at priority 1
TermToukyou1 ==
    MkTerm(<<"c_tou", "c_kyo">>, <<"h_hi", "h_ki">>, <<"1">>, <<"0">>, "meishi", 1)

\* 読*む (よ*む), a godan verb
TermYomu ==
    MkTerm(<<"c_yo", "*", "h_mu">>, <<"h_yo", "*", "h_mu">>, <<"0", "*", "-", "1">>,
           <<"0", "*", "-", "1">>, "godan", 0)

\* 読ま (よま), a proper noun as long as 読む and with a longer stem
TermYoma == MkTerm(<<"c_yo", "h_ma">>, <<"h_yo", "h_ma">>, <<"0">>, <<"0">>, "koyuu", 0)

\* 1+1, a noun whose spelling holds a character special to re
TermPlus == MkTerm(<<"1", "+", "1">>, <<"h_ni">>, <<"1">>, <<"0">>, "meishi", 0)

\* Ab, an english term
TermAb == MkTerm(<<"A", "b">>, <<"h_e", "h_i">>, <<"1">>, <<"0">>, "eigo", 0)

\* 来る, the kahen verb
TermKuru == MkTerm(<<"c_ku", "h_ru">>, <<"h_ku", "h_ru">>, <<"0">>, <<"0">>, "kahen", 0)

\* 高*い (たか*い), an adjective
TermTakai ==
    MkTerm(<<"c_taka", "*", "h_i">>, <<"h_ta", "h_ka", "*", "h_i">>, <<"1", "*", "-", "1">>,
           <<"0", "*", "-", "1">>, "keiyou", 0)

\* (東, a proper noun whose spelling starts with a control character
TermParen == MkTerm(<<"(", "c_tou">>, <<"h_hi">>, <<"0">>, <<"0">>, "koyuu", 0)

\* /, a proper noun whose spelling is a separator and nothing else
TermSlash == MkTerm(<<"/">>, <<"/">>, <<"0", "/", "0">>, <<"0">>, "koyuu", 0)

\* 東 with a division Term rejects: a row that load drops
RowBad == MkTerm(<<"c_tou">>, <<"h_hi">>, <<"5">>, <<"0">>, "meishi", 0)

\* the rows the table at dic_path is made of when the program starts
SourceRows == <<TermTou, RowBad, TermToukyou1>>

RECURSIVE SubTables(_, _)
\* the tables of at most n rows taken, in order, from rows
SubTables(rows, n) ==
    IF rows = <<>> \/ n = 0 THEN {<<>>}
    ELSE SubTables(Tail(rows), n)
         \cup {<<Head(rows)>> \o tb : tb \in SubTables(Tail(rows), n - 1)}

----------------------------------------------------------------------------
(* Dictionary: the calls *)

Idle == pc = "idle"

TermUnchanged == UNCHANGED <<self, out>>

ObjectsUnchanged == UNCHANGED <<frames, dicts>>

TokenizerUnchanged ==
    /\ UNCHANGED <<line, shape, remaining_line, tokens, pc, step>>
    /\ TermUnchanged
    /\ ObjectsUnchanged

Snapshot == [dic |-> dic, index |-> index, seen |-> seen]

\* Dictionary(dic_path) when the program starts
InitDictionary(table) ==
    /\ file = table
    /\ dic = load_from_csv(table)
    /\ index = InitialIndex(dic)
    /\ seen = Ids(dic)
    /\ before = Snapshot
    /\ ret = [op |-> "init"]

InitTokenizer ==
    /\ line = <<>>
    /\ shape = 0
    /\ remaining_line = <<>>
    /\ tokens = <<>>
    /\ pc = "idle"
    /\ step = NoStep

InitTerm ==
    /\ self = MkTerm(<<>>, <<>>, <<>>, <<>>, "none", 0)
    /\ out = [op |-> "none"]

\* no Dictionary object is kept beside the one in dic and index
InitObjects ==
    /\ frames = <<>>
    /\ dicts = <<>>

\* Dictionary.append(new_term)
DictAppend(new_term) ==
    /\ Idle
    /\ index < MaxIndex
    /\ before' = Snapshot
    /\ IF is_exists(dic, new_term)
       THEN /\ ret' = [op |-> "append", arg |-> new_term, value |-> None]
            /\ UNCHANGED <<dic, index, seen>>
       ELSE /\ dic' = SetRow(dic, index, new_term)
            /\ index' = index + 1
            /\ ret' = [op |-> "append", arg |-> new_term, value |-> Some(index' - 1)]
            /\ seen' = seen \cup {index' - 1}
    /\ UNCHANGED file
    /\ TokenizerUnchanged

\* Dictionary.remove(id)
DictRemove(id) ==
    /\ Idle
    /\ before' = Snapshot
    /\ IF id \in Ids(dic)
       THEN dic' = DropRow(dic, id) /\ ret' = [op |-> "remove", arg |-> id, value |-> TRUE]
       ELSE dic' = dic /\ ret' = [op |-> "remove", arg |-> id, value |-> FALSE]
    /\ UNCHANGED <<index, file, seen>>
    /\ TokenizerUnchanged

\* Dictionary.save(): to_csv(index=False) writes the columns, not the ids
DictSave ==
    /\ Idle
    /\ file' = [k \in 1..Len(dic) |-> dic[k].term]
    /\ before' = Snapshot
    /\ ret' = [op |-> "save"]
    /\ UNCHANGED <<dic, index, seen>>
    /\ TokenizerUnchanged

\* Dictionary.update(rows): check keeps the rows Term accepts, ids as they are
update(rows) == SelectSeq(rows, LAMBDA r : Constructs(r.term))

\* Dictionary(self.dic_path) followed by update(rows): the rows are the ones
\* given, the counter is the one computed from the table at dic_path
Derived(rows) ==
    /\ dic' = update(rows)
    /\ index' = InitialIndex(load_from_csv(file))
    /\ seen' = Ids(dic')
    /\ before' = Snapshot

\* Dictionary.copy(); the model goes on with the dictionary returned
DictCopy ==
    /\ Idle
    /\ Derived(dic)
    /\ ret' = [op |-> "copy"]
    /\ UNCHANGED file
    /\ TokenizerUnchanged

\* s.startswith(part)
ContainsAtStart(s, part) == StartsWith(s, part)

RECURSIVE Contains(_, _)
\* part in s
Contains(s, part) ==
    \/ StartsWith(s, part)
    \/ s # <<>> /\ Contains(Tail(s), part)

\* Dictionary.find(part); the model goes on with the dictionary returned
DictFind(part) ==
    /\ Idle
    /\ Derived(SelectSeq(dic, LAMBDA r :
           \/ Contains(remove_seps(r.term.jp), part)
           \/ Contains(remove_seps(r.term.kana), part)))
    /\ ret' = [op |-> "find", arg |-> part]
    /\ UNCHANGED file
    /\ TokenizerUnchanged

Init ==
    /\ \E table \in SubTables(SourceRows, MaxRows) : InitDictionary(table)
    /\ InitTokenizer
    /\ InitTerm
    /\ InitObjects

Next ==
    \/ \E t \in {TermTou, TermYomu} : DictAppend(t)
    \/ \E id \in 0..MaxIndex : DictRemove(id)
    \/ DictSave
    \/ DictCopy
    \/ \E part \in {<<"c_tou">>, <<"c_kyo">>, <<"h_ki">>, <<"c_yo", "h_mu">>, <<>>} :
           DictFind(part)

Spec == Init /\ [][Next]_vars

----------------------------------------------------------------------------
(* Dictionary.find: the source and the dictionary returned, side by side *)

\* a find that hands back the source's own DataFrame and counter
find_view(fs, d, part) == [frames |-> fs, dict |-> d]

\* d.find(part), d being a Dictionary whose DataFrame is fs[d.dic]: self.dic.copy()
\* and the mask make a DataFrame of the matching rows, Dictionary(dic_path)
\* computes the counter from the table at dic_path, and check copies once more
\* what update then binds; the source's DataFrame is kept as frame 1
find(fs, d, part) ==
    [frames |-> <<fs[d.dic],
                  update(SelectSeq(fs[d.dic], LAMBDA r :
                      \/ Contains(remove_seps(r.term.jp), part)
                      \/ Contains(remove_seps(r.term.kana), part)))>>,
     dict |-> [dic |-> 2, index |-> InitialIndex(load_from_csv(file))]]

OnlyObjectsChange ==
    /\ UNCHANGED <<dic, index, file, seen, before>>
    /\ UNCHANGED <<line, shape, remaining_line, tokens, pc, step>>
    /\ TermUnchanged

\* the source's find(part): what it returns takes the place of the last result
FindOnSource(part) ==
    /\ \E new_dic \in {find(frames, dicts[1], part)} :
           /\ frames' = new_dic.frames
           /\ dicts' = <<dicts[1], new_dic.dict>>
    /\ ret' = [op |-> "find", on |-> 1, arg |-> part]
    /\ OnlyObjectsChange

\* dicts[d].append(new_term): loc[self.index] = ... writes into the DataFrame
AppendOn(d, new_term) ==
    /\ dicts[d].index < MaxIndex
    /\ IF is_exists(frames[dicts[d].dic], new_term)
       THEN /\ ret' = [op |-> "append", on |-> d, arg |-> new_term, value |-> None]
            /\ ObjectsUnchanged
       ELSE /\ frames' = [frames EXCEPT ![dicts[d].dic] = SetRow(@, dicts[d].index, new_term)]
            /\ dicts' = [dicts EXCEPT ![d].index = @ + 1]
            /\ ret' = [op |-> "append", on |-> d, arg |-> new_term,
                       value |-> Some(dicts[d].index)]
    /\ OnlyObjectsChange

\* dicts[d].remove(id): drop(index, inplace=True) writes into the DataFrame
RemoveOn(d, id) ==
    /\ IF id \in Ids(frames[dicts[d].dic])
       THEN /\ frames' = [frames EXCEPT ![dicts[d].dic] = DropRow(@, id)]
            /\ ret' = [op |-> "remove", on |-> d, arg |-> id, value |-> TRUE]
       ELSE /\ frames' = frames
            /\ ret' = [op |-> "remove", on |-> d, arg |-> id, value |-> FALSE]
    /\ UNCHANGED dicts
    /\ OnlyObjectsChange

\* the source is the Dictionary the program starts with
InitFind ==
    /\ \E table \in SubTables(SourceRows, MaxRows) : InitDictionary(table)
    /\ InitTokenizer
    /\ InitTerm
    /\ frames = <<dic>>
    /\ dicts = <<[dic |-> 1, index |-> index]>>

NextFind ==
    \/ \E part \in {<<"c_tou">>, <<"c_kyo">>, <<"c_yo", "h_mu">>} : FindOnSource(part)
    \/ \E d \in 1..Len(dicts), t \in {TermTou, TermYomu} : AppendOn(d, t)
    \/ \E d \in 1..Len(dicts), id \in 0..MaxIndex : RemoveOn(d, id)

\* a Dictionary, the dictionary its last find returned, and appends and
\* removes on either
SpecFind == InitFind /\ [][NextFind]_vars

----------------------------------------------------------------------------
(* The tokenizer's calls *)

\* the rows a table is made of when a line is tokenized
TokenizerRows ==
    <<TermTou, TermToukyou1, TermYomu, TermYoma, TermToukyou, TermPlus, TermAb, TermKuru,
      TermTakai>>

\* the tables a line is tokenized on: none, the rows, the rows the other
\* way round, and a table with a row that starts with a control character
TokenizerTables ==
    {<<>>, TokenizerRows,
     [k \in 1..Len(TokenizerRows) |-> TokenizerRows[Len(TokenizerRows) + 1 - k]],
     <<TermTou, TermParen>>, <<TermTou, TermSlash>>}

Quadruple(jp, kana, div0, div1) ==
    <<"(">> \o jp \o <<";">> \o kana \o <<";">> \o div0 \o <<";">> \o div1 \o <<")">>

\* the pieces of an input line: single characters, a directive, dictionary
\* words in some surface form, quadruples Term accepts and rejects
Pieces ==
    {<<"c_tou">>, <<"c_kyo">>, <<"1">>, <<"a">>, <<"$">>, <<"(">>, <<")">>, <<"[">>, <<"]">>,
     <<"[", "1", "]">>,
     <<"c_tou", "c_kyo">>,
     <<"c_yo", "h_ma">>,
     <<"c_ku", "h_na", "h_sa", "h_i">>,
     <<"c_taka", "h_sa", "h_so", "h_u">>,
     Quadruple(<<"A">>, <<"a">>, <<"0">>, <<"0">>),
     Quadruple(<<"c_tou">>, <<"h_hi">>, <<"5">>, <<"0">>)}

RECURSIVE LinesOf(_)
\* the lines of at most n pieces
LinesOf(n) ==
    IF n = 0 THEN {<<>>}
    ELSE LinesOf(n - 1) \cup {p \o l : p \in Pieces, l \in LinesOf(n - 1)}

\* the lines that are a quadruple and what follows it
QuadLines ==
    {Quadruple(jp, kana, div0, div1) \o tail :
        jp \in {<<"A">>, <<"c_tou", "/", "c_kyo">>, <<"(", "A">>, <<"A", ".", "b">>},
        kana \in {<<"a">>, <<"h_to", "/", "h_ki">>},
        div0 \in {<<"0">>, <<"0", "/", "0">>, <<"0", "/", "3">>, <<"5">>},
        div1 \in {<<"0">>, <<"2">>},
        tail \in {<<>>, <<"c_tou">>}}

\* the lines of MaxPieces pieces, the quadruple lines, and the lines that
\* start with a doubled control character
Lines ==
    LinesOf(MaxPieces) \cup QuadLines
    \cup {<<c, c>> \o tail :
            c \in {"$", "(", ")", "[", "]"},
            tail \in {<<"c_tou">>, <<"c_tou", "c_kyo">>, <<"c_tou", "$">>, <<"(", "c_tou">>}}
    \cup {<<"$", "c_tou", "c_kyo", "$", "c_tou">>, <<"$", "c_tou", "$">>,
          <<"c_tou", "$", "c_yo", "h_ma", "$">>, <<"/", "c_tou">>, <<"c_tou", "/">>}

DictionaryUnchanged ==
    /\ UNCHANGED <<dic, index, file, seen, before, ret>>
    /\ TermUnchanged
    /\ ObjectsUnchanged

\* line_to_tokens0/1/2(line) is called
LineToTokens(ln, sh) ==
    /\ pc = "idle"
    /\ line' = ln
    /\ shape' = sh
    /\ remaining_line' = ln
    /\ tokens' = <<>>
    /\ pc' = "scan"
    /\ step' = NoStep
    /\ DictionaryUnchanged

\* one pass of the while loop
Scan ==
    /\ pc = "scan"
    /\ Len(remaining_line) > 0
    /\ Len(tokens) <= MaxTokens
    /\ \E p \in {LoopPass(shape, dic, remaining_line, tokens)} :
           /\ remaining_line' = p.remaining_line
           /\ tokens' = p.tokens
           /\ step' = p.step
           /\ pc' = IF p.raised THEN "raised" ELSE "scan"
    /\ UNCHANGED <<line, shape>>
    /\ DictionaryUnchanged

\* the loop ends and the tokens are returned
Return ==
    /\ pc = "scan"
    /\ Len(remaining_line) = 0
    /\ pc' = "returned"
    /\ step' = NoStep
    /\ UNCHANGED <<line, shape, remaining_line, tokens>>
    /\ DictionaryUnchanged

InitTok ==
    /\ \E table \in TokenizerTables : InitDictionary(table)
    /\ InitTokenizer
    /\ InitTerm
    /\ InitObjects

NextTok ==
    \/ Idle /\ \E ln \in Lines, sh \in 0..2 : LineToTokens(ln, sh)
    \/ Scan
    \/ Return

\* a Dictionary loaded from a table, on which lines are tokenized
SpecTok == InitTok /\ [][NextTok]_vars

----------------------------------------------------------------------------
(* Term: the calls *)

\* the fields Term(...) is called with
TermsGiven ==
    {MkTerm(jp, kana, div0, div1, term_type, 0) :
        jp \in {<<"c_tou">>, <<"c_tou", "/", "c_kyo">>, <<"c_tou", "c_kyo">>, <<"1", "+", "1">>,
             <<"+", "1">>, <<"3", ".", "5">>, <<"1", "-", "1">>, <<"c_yo", "*", "h_mu">>,
             <<"c_ku", "h_ru">>, <<"c_taka", "*", "h_i">>, <<"c_taka", "*", "h_ru">>, <<"A", "b">>,
             <<"c_tou", "*", "h_su", "h_ru">>, <<"(", "A">>, <<"h_hi">>, <<"$", "/", "$">>,
             <<"c_tou", "$">>, <<"*", "*", "h_mu">>, <<"c_tou", "\\", "c_kyo">>, <<"\\">>},
        kana \in {<<"h_hi">>, <<"h_to", "/", "h_ki">>, <<"h_to", "h_ki">>, <<"h_ni">>,
             <<"h_yo", "*", "h_mu">>, <<"h_ku", "h_ru">>, <<"h_ta", "h_ka", "*", "h_i">>,
             <<"h_ta", "h_ka", "*", "h_ru">>, <<"h_hi", "*", "h_su", "h_ru">>,
             <<"$", "/", "$">>, <<"h_to", "\\", "h_ki">>, <<"\\">>},
        div0 \in {<<"0">>, <<"1">>, <<"0", "/", "0">>, <<"0", "*", "-", "1">>, <<"5">>,
                 <<"-", "1">>},
        div1 \in {<<"0">>, <<"2">>, <<"0", "*", "-", "1">>, <<"-", "1">>, <<"0", "\\", "0">>,
                 <<"0", "\\", "2">>},
        term_type \in TermTypes}

RestUnchanged ==
    UNCHANGED <<dic, index, file, seen, before, ret, line, shape, remaining_line, tokens,
                pc, step, frames, dicts>>

\* Term(jp, kana, div0, div1, term_type, pri)
NewTerm(t) ==
    /\ out.op = "none"
    /\ self' = t
    /\ out' = [op |-> "Term", raised |-> ~Constructs(t)]
    /\ RestUnchanged

\* re.match(term.re_pattern(), Term.remove_seps(self.jp))
MatchOwnSpelling ==
    /\ out.op = "Term"
    /\ ~out.raised
    /\ \E tpl \in {re_pattern(self)} :
           out' = [op |-> "re_pattern", err |-> tpl.err,
                      match |-> IF tpl.err THEN [matched |-> FALSE, g1 |-> <<>>, g2 |-> <<>>]
                                ELSE ReMatch(tpl, remove_seps(self.jp))]
    /\ UNCHANGED self
    /\ RestUnchanged

\* re.match(term.re_pattern(), line), as search_to_token0/1/2 calls it
MatchText(text) ==
    /\ out.op = "Term"
    /\ ~out.raised
    /\ \E tpl \in {re_pattern(self)} :
           out' = [op |-> "match", text |-> text, err |-> tpl.err,
                      match |-> IF tpl.err THEN [matched |-> FALSE, g1 |-> <<>>, g2 |-> <<>>]
                                ELSE ReMatch(tpl, text)]
    /\ UNCHANGED self
    /\ RestUnchanged

\* term.to_token2(Term.remove_seps(term.jp)), as the tokenizer calls it on a
\* quadruple
ToToken2 ==
    /\ out.op = "Term"
    /\ ~out.raised
    /\ out' = [op |-> "to_token2", text |-> remove_seps(self.jp),
               result |-> to_token2(self, remove_seps(self.jp))]
    /\ UNCHANGED self
    /\ RestUnchanged

InitTermSpec ==
    /\ InitDictionary(<<>>)
    /\ InitTokenizer
    /\ InitTerm
    /\ InitObjects

\* the texts are 読む 読んだ 読京 高い 高さそう 高京 高る 東する 東し 東京 東
NextTerm ==
    \/ out.op = "none" /\ \E t \in TermsGiven : NewTerm(t)
    \/ MatchOwnSpelling
    \/ \E text \in {<<"c_yo", "h_mu">>, <<"c_yo", "h_n", "h_ta">>, <<"c_yo", "c_kyo">>,
                     <<"c_taka", "h_i">>, <<"c_taka", "h_sa", "h_so", "h_u">>,
                     <<"c_taka", "c_kyo">>, <<"c_taka", "h_ru">>,
                     <<"c_tou", "h_su", "h_ru">>, <<"c_tou", "h_si">>, <<"c_tou", "c_kyo">>,
                     <<"c_tou">>} :
           MatchText(text)
    \/ ToToken2

\* Terms are constructed, their templates tried on their own spellings and
\* on other texts, and their own spellings decomposed
SpecTerm == InitTermSpec /\ [][NextTerm]_vars

----------------------------------------------------------------------------
(* Bulk load: Dictionary.update on tables from outside *)

\* float("nan"), the cell of an empty field; no str is written this way, a
\* character being one element
NaN == <<"nan">>

\* what Term(...) does with the cells of a row: len() in is_valid_transfer
\* raises TypeError on the first cell of jp, kana, div0, div1 that all()
\* reaches and that is not a str; all() stops at the first str it rejects
TermOutcome(t) ==
    IF \E f \in 1..4 :
           /\ <<t.jp, t.kana, t.div0, t.div1>>[f] = NaN
           /\ \A g \in 1..(f - 1) :
                  /\ <<t.jp, t.kana, t.div0, t.div1>>[g] # NaN
                  /\ is_valid_transfer(<<t.jp, t.kana, t.div0, t.div1>>[g])
    THEN "TypeError"
    ELSE IF Constructs(t) THEN "Term" ELSE "ValueError"

\* Dictionary.check(df), df having the six columns: the rows whose Term
\* raised no ValueError, unless some row raised another exception
check(df) ==
    [raised |-> \E k \in 1..Len(df) : TermOutcome(df[k].term) = "TypeError",
     rows |-> SelectSeq(df, LAMBDA r : TermOutcome(r.term) # "ValueError")]

\* the labelled rows the tables given to update are taken from: 東, 東 with
\* a division Term rejects, 東 with an empty reading cell, 読*む, 東 with an
\* empty type cell, 東$ with an empty reading cell (the spelling is rejected
\* first)
LoadRows ==
    <<Row(0, TermTou),
      Row(1, RowBad),
      Row(2, MkTerm(<<"c_tou">>, NaN, <<"0">>, <<"0">>, "meishi", 0)),
      Row(4, TermYomu),
      Row(5, MkTerm(<<"c_tou">>, <<"h_hi">>, <<"0">>, <<"0">>, "nan", 0)),
      Row(7, MkTerm(<<"c_tou", "$">>, NaN, <<"0">>, <<"0">>, "meishi", 0))>>

\* Dictionary.update(df)
DictUpdate(df) ==
    /\ Idle
    /\ before' = Snapshot
    /\ \E new_df \in {check(df)} :
           /\ dic' = IF new_df.raised THEN dic ELSE new_df.rows
           /\ ret' = [op |-> "update", arg |-> df, raised |-> new_df.raised]
    /\ seen' = seen \cup Ids(dic')
    /\ UNCHANGED <<index, file>>
    /\ TokenizerUnchanged

NextLoad == \E df \in SubTables(LoadRows, Len(LoadRows)) : DictUpdate(df)

\* a Dictionary whose rows are replaced by tables from outside
SpecLoad == InitTermSpec /\ [][NextLoad]_vars

----------------------------------------------------------------------------
(* Term.auto_divide: the calls *)

\* Term.auto_divide(jp, kana, term_type)
AutoDivide(jp, kana, term_type) ==
    /\ out.op = "none"
    /\ out' = [op |-> "auto_divide", jp |-> jp, kana |-> kana, term_type |-> term_type,
               result |-> auto_divide(jp, kana, term_type)]
    /\ UNCHANGED self
    /\ RestUnchanged

\* the spellings are 読む 東京 東京読 東京読高 東ひ京 む する 来る 高い A+ and
\* none, the readings よむ とき とひき む する くる たかい and ひ 11 and 24 times
NextDivide ==
    out.op = "none" /\
    \E jp \in {<<"c_yo", "h_mu">>, <<"c_tou", "c_kyo">>, <<"c_tou", "c_kyo", "c_yo">>,
               <<"c_tou", "c_kyo", "c_yo", "c_taka">>, <<"c_tou", "h_hi", "c_kyo">>, <<"h_mu">>,
               <<"h_su", "h_ru">>, <<"c_ku", "h_ru">>, <<"c_taka", "h_i">>, <<"A", "+">>, <<>>},
       kana \in {<<"h_yo", "h_mu">>, <<"h_to", "h_ki">>, <<"h_to", "h_hi", "h_ki">>, <<"h_mu">>,
                 <<"h_su", "h_ru">>, <<"h_ku", "h_ru">>, <<"h_ta", "h_ka", "h_i">>,
                 [k \in 1..11 |-> "h_hi"], [k \in 1..24 |-> "h_hi"]},
       term_type \in TermTypes :
        AutoDivide(jp, kana, term_type)

\* spellings and readings are given to auto_divide
SpecDivide == InitTermSpec /\ [][NextDivide]_vars

----------------------------------------------------------------------------
(* Properties *)

\* the jp fields of the tokens, concatenated in order
JpText(toks) == Join([k \in 1..Len(toks) |-> toks[k].jp])

\* C1: whatever the dictionary and the line, the jp fields of the tokens
\* line_to_tokens0/1/2 returns, concatenated in order, are the line
C1_RoundTrip == pc = "returned" => JpText(tokens) = line

\* C2: whatever the dictionary and the line, line_to_tokens0/1/2 returns its
\* tokens and raises nothing
C2_NeverRaises == pc # "raised"

\* C3: the template of a Term that construction accepted compiles, matches
\* the term's spelling without separators, and its group 1 is that spelling
C3_MatchesOwnSpelling ==
    out.op = "re_pattern" =>
        /\ ~out.err
        /\ out.match.matched
        /\ out.match.g1 = remove_seps(self.jp)

C5_AppendContract ==
    ret.op = "append" =>
        IF \E k \in 1..Len(before.dic) : before.dic[k].term = ret.arg
        THEN ret.value = None /\ dic = before.dic /\ index = before.index
        ELSE /\ ret.value # None
             /\ ret.value[1] \notin Ids(before.dic)
             /\ dic = Append(before.dic, Row(ret.value[1], ret.arg))

\* C6: remove(id) of an id that is present returns True and deletes that row
\* and no other; of an id that is absent it returns False and changes
\* nothing; a second remove(id) right after the first changes nothing
C6_RemoveContract ==
    [][ret'.op = "remove" =>
          /\ IF ret'.arg \in Ids(dic)
             THEN /\ ret'.value = TRUE
                  /\ dic' = SelectSeq(dic, LAMBDA r : r.id # ret'.arg)
             ELSE /\ ret'.value = FALSE
                  /\ dic' = dic
          /\ index' = index /\ file' = file
          /\ (ret.op = "remove" /\ ret.arg = ret'.arg) => (dic' = dic /\ ~ret'.value)]_vars

\* a remove of an id the Dictionary held and holds no more, rows remaining
C6_Witness ==
    /\ ret.op = "remove"
    /\ ~ret.value
    /\ ret.arg \in seen
    /\ Len(dic) > 0

\* C7: in any state, append of a term not stored, returning i, followed by
\* remove(i) leaves the rows (ids and fields) that were there before the append
C7_AppendRemoveRestores ==
    [][(/\ ret.op = "append" /\ ret.value # None
        /\ ret'.op = "remove" /\ ret'.arg = ret.value[1]) => dic' = before.dic]_vars

\* the positions in d of the rows a search at (text, priority) selects from
Pool(d, text, priority) ==
    {k \in 1..Len(d) : d[k].term.pri = priority /\ lower(d[k].term.jp[1]) = lower(text[1])}

Matches(t, text) == ~re_pattern(t).err /\ ReMatch(re_pattern(t), text).matched

\* C8: the row a search at (text, priority) selects has that priority, starts
\* with the first character of text whatever its case, matches text, and no
\* row of that kind that matches text has a longer spelling without
\* separators, or one as long and a longer stem; a search that selects
\* nothing had no such row that matches
C8_SearchSelection ==
    (step.searched /\ pc = "scan") =>
        IF step.found
        THEN \E k \in Pool(dic, step.at, step.priority) :
                /\ dic[k].id = step.hit
                /\ Matches(dic[k].term, step.at)
                /\ \A j \in Pool(dic, step.at, step.priority) :
                       Matches(dic[j].term, step.at) =>
                           \/ len_jp(dic[j].term) < len_jp(dic[k].term)
                           \/ /\ len_jp(dic[j].term) = len_jp(dic[k].term)
                              /\ len_jp_gokan(dic[j].term) <= len_jp_gokan(dic[k].term)
        ELSE \A j \in Pool(dic, step.at, step.priority) : ~Matches(dic[j].term, step.at)

\* a search that selected a row placed, in the table, after a matching row
\* as long and with a shorter stem
C8_Witness ==
    /\ step.searched /\ step.found /\ pc = "scan"
    /\ \E k, j \in Pool(dic, step.at, step.priority) :
           /\ dic[k].id = step.hit
           /\ j < k
           /\ Matches(dic[j].term, step.at)
           /\ len_jp(dic[j].term) = len_jp(dic[k].term)
           /\ len_jp_gokan(dic[j].term) < len_jp_gokan(dic[k].term)

\* the row of d labelled id
RowOf(d, id) == d[CHOOSE k \in 1..Len(d) : d[k].id = id]

\* C9: a pass that starts at a directive [N] searches once, at the text right
\* after the directive and among the rows of priority N, and adds the tokens
\* of that search and none for the directive; every other search is at
\* priority 0
C9_PriorityDirective ==
    [][(pc = "scan" /\ remaining_line # <<>>) =>
          LET directive == PriorityMatch(remaining_line)
          IN  IF directive.matched
              THEN LET r == search_to_token(shape, dic, directive.rest, int(directive.digits))
                   IN  /\ step'.searched
                       /\ step'.priority = int(directive.digits)
                       /\ step'.at = directive.rest
                       /\ step'.found => RowOf(dic, step'.hit).term.pri = int(directive.digits)
                       /\ IF r.raised THEN pc' = "raised"
                          ELSE tokens' = tokens \o
                                   (IF r.found THEN r.tokens
                                    ELSE <<PlainToken(shape, <<Head(directive.rest)>>)>>)
              ELSE step'.searched => step'.priority = 0]_vars

\* the search after [1] selected a row of priority 1
C9_Witness ==
    /\ step.rule = "priority"
    /\ step.priority = 1
    /\ step.found
    /\ RowOf(dic, step.hit).term.pri = 1
    /\ tokens # <<>>

\* the transient term of the quadruple the text starts with
QuadrupleTerm(text) ==
    MkTerm(CustomMatch(text).args[1], CustomMatch(text).args[2], CustomMatch(text).args[3],
           CustomMatch(text).args[4], "koyuu", 0)

\* a pass that starts at a quadruple adds the tokens the transient term's
\* to_token0/1/2 returns for its own spelling and goes on after the ")"
QuadruplePass ==
    LET t == QuadrupleTerm(remaining_line)
        own == to_token(shape, t, remove_seps(t.jp))
    IN  /\ ~own.raised
        /\ tokens' = tokens \o own.tokens
        /\ remaining_line' = CustomMatch(remaining_line).rest
        /\ pc' = "scan"

\* the text starts with a quadruple whose fields make a proper noun
QuadrupleAhead ==
    /\ pc = "scan"
    /\ CustomMatch(remaining_line).matched
    /\ Constructs(QuadrupleTerm(remaining_line))

\* C10: four fields without ";" and ")" that make a proper noun at priority
\* 0, written (SPELLING;READING;DIV0;DIV1), are tokenized in every shape as
\* the term's to_token0/1/2 tokenizes its own spelling without separators,
\* and the scan goes on after the ")"
C10_QuadrupleTokens == [][QuadrupleAhead => QuadruplePass]_vars

\* C10, amended: four fields without ";" and ")", the spelling not beginning
\* with "(", that make a proper noun at priority 0, written
\* (SPELLING;READING;DIV0;DIV1), are tokenized in every shape as the term's
\* to_token0/1/2 tokenizes its own spelling without separators, and the scan
\* goes on after the ")"
C10_QuadrupleTokensNoParen ==
    [][(QuadrupleAhead /\ remaining_line[2] # "(") => QuadruplePass]_vars

\* a quadruple of two slots was tokenized and text is left after its ")"
C10_Witness ==
    /\ step.rule = "custom"
    /\ Len(tokens) >= 2
    /\ remaining_line # <<>>

\* C11: a pass that starts at a quadruple whose fields Term rejects goes on as
\* a search pass at the "(": the tokens of a search at the text from the "("
\* on, or the "(" as a plain token, are added and the text after them is left,
\* so that no character of the quadruple is lost
C11_FallThroughAtParen ==
    [][(/\ pc = "scan" /\ remaining_line # <<>>
        /\ Branch(remaining_line) = "custom"
        /\ ~Constructs(QuadrupleTerm(remaining_line))) =>
          LET r == search_to_token(shape, dic, remaining_line, 0)
          IN  /\ pc' = "scan"
              /\ tokens' = tokens \o (IF r.found THEN r.tokens
                                      ELSE <<PlainToken(shape, <<"(">>)>>)
              /\ remaining_line' = IF r.found THEN r.rest ELSE Tail(remaining_line)]_vars

RECURSIVE BareDollarFrom(_, _)
\* s has, from position i on, a "$" that is not the second character of an
\* escape pair and is not followed by one of / \ * $
BareDollarFrom(s, i) ==
    IF i > Len(s) THEN FALSE
    ELSE IF s[i] # "$" THEN BareDollarFrom(s, i + 1)
    ELSE IF i + 1 <= Len(s) /\ s[i + 1] \in {"/", "\\", "*", "$"}
         THEN BareDollarFrom(s, i + 2)
         ELSE TRUE

\* C12: Term(...) raises whenever the spelling, the reading or a division
\* holds a "$" that is not the second character of an escape pair and is
\* not followed by one of / \ * $
C12_BareDollarRejected ==
    (/\ out.op = "Term"
     /\ \E s \in {self.jp, self.kana, self.div0, self.div1} : BareDollarFrom(s, 1)) =>
        out.raised

\* what follows the last "*" of s that no "$" precedes
EndingOf(s) == From(s, (CHOOSE i \in SepPositions(s, "*") :
                            \A j \in SepPositions(s, "*") : j <= i) + 1)

\* the ending rule of an inflecting type under one alignment scheme, the
\* separators of the other scheme taken out
EndingRule(t, scheme) ==
    LET other == IF scheme = 0 THEN "\\" ELSE "/"
        jp == div_remove(t.jp, other)
        kana == div_remove(t.kana, other)
        division == div_remove(IF scheme = 0 THEN t.div0 ELSE t.div1, other)
    IN  /\ \A s \in {jp, kana, division} : SepPositions(s, "*") # {}
        /\ EndingOf(jp) \in
               CASE t.term_type = "godan" ->
                        {<<"h_u">>, <<"h_ku">>, <<"h_gu">>, <<"h_su">>, <<"h_tu">>, <<"h_nu">>,
                         <<"h_bu">>, <<"h_mu">>, <<"h_ru">>}
                 [] t.term_type = "jouge" -> {<<"h_ru">>}
                 [] t.term_type = "sahen" -> {<<"h_su", "h_ru">>}
                 [] t.term_type = "keiyou" -> {<<"h_i">>}
        /\ EndingOf(kana) = EndingOf(jp)
        /\ EndingOf(division) = <<"-", "1">>

\* C13: a Term of type godan, ichidan, sahen or adjective that construction
\* accepted has, under both alignment schemes, a spelling ending its type
\* allows, the same ending in the reading, and -1 as the ending of the
\* division; so construction with any other ending raises
C13_EndingRule ==
    (/\ out.op = "Term" /\ ~out.raised
     /\ self.term_type \in {"godan", "jouge", "sahen", "keiyou"}) =>
        EndingRule(self, 0) /\ EndingRule(self, 1)

\* a sahen verb was constructed
C13_Witness ==
    /\ out.op = "Term" /\ ~out.raised
    /\ self.term_type = "sahen"
    /\ EndingOf(self.jp) = <<"h_su", "h_ru">>

\* under one alignment scheme, some segment of the stem of t consists only
\* of kana and has a division digit other than -1 or a reading other than
\* the segment itself
KanaSegmentOff(t, scheme) ==
    LET other == IF scheme = 0 THEN "\\" ELSE "/"
        div_char == IF scheme = 0 THEN "/" ELSE "\\"
        jp_list == div_split(remove_gobi(div_remove(t.jp, other)), div_char)
        kana_list == div_split(remove_gobi(div_remove(t.kana, other)), div_char)
        div_list ==
            div_split(remove_gobi(div_remove(IF scheme = 0 THEN t.div0 ELSE t.div1, other)),
                      div_char)
    IN  \E i \in 1..Len(jp_list) :
            /\ jp_list[i] # <<>>
            /\ \A k \in 1..Len(jp_list[i]) : is_kana(jp_list[i][k])
            /\ \/ i > Len(div_list)
               \/ i > Len(kana_list)
               \/ div_list[i] # <<"-", "1">>
               \/ kana_list[i] # jp_list[i]

\* C14: Term(...) raises, whatever the type, when a kana-only segment of the
\* stem has a division digit other than -1 or a reading that differs from
\* its spelling
C14_KanaSegments ==
    (out.op = "Term" /\ (KanaSegmentOff(self, 0) \/ KanaSegmentOff(self, 1))) => out.raised

\* C14, amended: Term(...) raises, for every type other than proper noun and
\* english, when a kana-only segment of the stem has a division digit other
\* than -1 or a reading that differs from its spelling
C14_KanaSegmentsChecked ==
    (/\ out.op = "Term"
     /\ self.term_type \notin {"koyuu", "eigo"}
     /\ KanaSegmentOff(self, 0) \/ KanaSegmentOff(self, 1)) => out.raised

\* a term that passes under scheme 0 was rejected for a kana-only segment
\* under scheme 1
C14_Witness ==
    /\ out.op = "Term" /\ out.raised
    /\ self.term_type \notin {"koyuu", "eigo"}
    /\ is_valid(self, 0)
    /\ KanaSegmentOff(self, 1)

\* C15: update(df) on a table that has the six columns raises nothing and
\* leaves, under their labels and in their order, the rows of df for which
\* Term(...) returns a Term, and no other row
C15_LoadKeepsValidRows ==
    ret.op = "update" =>
        /\ ~ret.raised
        /\ dic = SelectSeq(ret.arg, LAMBDA r : TermOutcome(r.term) = "Term")

\* auto_divide was called with 読む, よむ and godan
DivideYomu ==
    /\ out.op = "auto_divide"
    /\ out.jp = <<"c_yo", "h_mu">>
    /\ out.kana = <<"h_yo", "h_mu">>
    /\ out.term_type = "godan"

\* C16: auto_divide("読む", "よむ", godan) returns a list that holds the
\* candidate (読/む, よ/む, 0/0, 0)
C16_YomuSlashCandidate ==
    DivideYomu =>
        /\ out.result.kind = "list"
        /\ \E k \in 1..Len(out.result.value) :
               out.result.value[k] =
                   <<<<"c_yo", "/", "h_mu">>, <<"h_yo", "/", "h_mu">>, <<"0", "/", "0">>, <<"0">>>>

\* C16, amended: auto_divide("読む", "よむ", godan) returns the list of the one
\* candidate (読*む, よ*む, 0*-1, 0*-1)
C16_YomuStarCandidate ==
    DivideYomu =>
        /\ out.result.kind = "list"
        /\ out.result.value =
               <<<<<<"c_yo", "*", "h_mu">>, <<"h_yo", "*", "h_mu">>, <<"0", "*", "-", "1">>,
                   <<"0", "*", "-", "1">>>>>>

\* auto_divide("読む", "よむ", godan) returned a list
C16_Witness == DivideYomu /\ out.result.kind = "list" /\ Len(out.result.value) = 1

\* every candidate of one run of other characters: a boundary "/" or "/\",
\* "/\" at most once, or none after each character of the run but the last,
\* and the same boundaries, in their order, in each of the places the
\* reading has for them
FullChoices(jp_gokan, kana_gokan) ==
    IF Len(jp_gokan) = 1 \/ Len(kana_gokan) = 1
    THEN {<<jp_gokan, kana_gokan, <<"0">>, <<"0">>>>}
    ELSE IF Len(kana_gokan) < Len(jp_gokan)
    THEN {<<jp_gokan, kana_gokan, <<"1">>, <<"0">>>>}
    ELSE UNION {LET combo == Combo(n, Len(jp_gokan) - 1)
                    places == generate_insertions(combo, <<>>, Len(kana_gokan) - Len(jp_gokan))
                IN  {Choice(Interleave(jp_gokan, combo),
                            Interleave(kana_gokan, places[k])).choice : k \in 1..Len(places)} :
                   n \in {m \in 0..(3 ^ (Len(jp_gokan) - 1) - 1) :
                             Cardinality({k \in 1..(Len(jp_gokan) - 1) :
                                             Combo(m, Len(jp_gokan) - 1)[k] = <<"/", "\\">>}) <= 1}}

\* every quadruple made of one candidate for each run of the stem
FullResults(jp, kana, term_type) ==
    LET n == CASE term_type \in {"meishi", "koyuu"} -> 0
               [] term_type = "sahen" -> 2
               [] OTHER -> 1
        jp_list == <<Take(jp, Len(jp) - n), IF n = 0 THEN None ELSE Some(From(jp, Len(jp) - n + 1))>>
        kana_list ==
            <<Take(kana, Len(kana) - n), IF n = 0 THEN None ELSE Some(From(kana, Len(kana) - n + 1))>>
        runs == RunsFrom(jp_list[1], 2,
                         [text |-> <<jp_list[1][1]>>, kana |-> is_kana(jp_list[1][1])])
        groups == KanaGroups(runs, 1, kana_list[1], Len(kana_list[1])).groups
    IN  UNION {{Result(combo, jp_list, kana_list) :
                      combo \in {f \in [1..Len(runs) -> UNION {full[i] : i \in 1..Len(runs)}] :
                                    \A i \in 1..Len(runs) : f[i] \in full[i]}} :
                  full \in {[i \in 1..Len(runs) |->
                               IF runs[i].kana
                               THEN {<<runs[i].text, groups[i], <<"-", "1">>, <<"-", "1">>>>}
                               ELSE FullChoices(runs[i].text, groups[i])]}}

\* C17: a call of auto_divide that returns a list of candidates enumerated, for
\* no run of the stem, more than 2000 choices (with more it raises
\* AutoDivisionChoiceOverflowError), and the list holds every quadruple made
\* of one candidate for each run
C17_NoSilentTruncation ==
    (out.op = "auto_divide" /\ out.result.kind = "list" /\ out.result.counts # <<>>) =>
        /\ \A i \in 1..Len(out.result.counts) : out.result.counts[i] <= ChoiceCap
        /\ \A q \in FullResults(out.jp, out.kana, out.term_type) :
               \E k \in 1..Len(out.result.value) : out.result.value[k] = q

\* text holds part at some position
Holds(text, part) ==
    \E i \in 1..(Len(text) + 1) :
        /\ i + Len(part) - 1 <= Len(text)
        /\ \A k \in 1..Len(part) : text[i + k - 1] = part[k]

\* the row matches the substring: its spelling or its reading, without the
\* separators and with the escapes resolved, holds it
RowMatches(r, part) ==
    Holds(remove_seps(r.term.jp), part) \/ Holds(remove_seps(r.term.kana), part)

\* C18: find(part) returns a dictionary whose rows are exactly the rows of
\* the source, with the same ids and the same fields, whose spelling or
\* reading contains part after remove_seps: every matching row of the source
\* is in the result and every row of the result is a matching row of the source
C18_FindExact ==
    ret.op = "find" =>
        /\ \A k \in 1..Len(before.dic) :
               RowMatches(before.dic[k], ret.arg) =>
                   \E j \in 1..Len(dic) : dic[j] = before.dic[k]
        /\ \A j \in 1..Len(dic) :
               /\ \E k \in 1..Len(before.dic) : before.dic[k] = dic[j]
               /\ RowMatches(dic[j], ret.arg)
        /\ \A i, j \in 1..Len(dic) : dic[i].id = dic[j].id => i = j

\* a find that kept a row matching inside its spelling only once the
\* separator is removed, and dropped another row
C18_Witness ==
    /\ ret.op = "find"
    /\ ret.arg = <<"c_yo", "h_mu">>
    /\ \E j \in 1..Len(dic) : dic[j].term = TermYomu
    /\ Len(dic) < Len(before.dic)

\* the rows of dicts[d], as a set
RowsOf(fs, ds, d) == {fs[ds[d].dic][k] : k \in 1..Len(fs[ds[d].dic])}

\* C19: find changes neither the rows nor the next-id counter of the source,
\* and the dictionary it returns is independent: an append or a remove on the
\* result leaves the source's row set as it was, and an append or a remove on
\* the source leaves the result's row set as it was
C19_FindIndependent ==
    [][/\ ret'.op = "find" =>
              /\ frames'[dicts'[1].dic] = frames[dicts[1].dic]
              /\ dicts'[1].index = dicts[1].index
       /\ (ret'.op \in {"append", "remove"} /\ Len(dicts) = 2) =>
              \A d \in 1..2 :
                  d # ret'.on => RowsOf(frames', dicts', d) = RowsOf(frames, dicts, d)]_vars

\* after a find that returned a row, an append has added a row to the result
\* that the source does not hold
C19_Witness ==
    /\ Len(dicts) = 2
    /\ ret.op = "append"
    /\ ret.on = 2
    /\ ret.value # None
    /\ RowsOf(frames, dicts, 2) # {}
    /\ ~is_exists(frames[dicts[1].dic], ret.arg)

\* the scan is at a doubled control character
AtDoubled ==
    /\ pc = "scan"
    /\ Len(remaining_line) >= 2
    /\ remaining_line[1] \in {"$", "(", ")", "[", "]"}
    /\ remaining_line[2] = remaining_line[1]

\* C20: at a scan position where the next two characters are "$$", "((",
\* "))", "[[" or "]]", the pass adds exactly one token, the control character
\* as literal text, takes neither character as the start of a "$" span, a
\* quadruple or a directive, and leaves the scan right after the pair
C20_DoubledIsOneLiteral ==
    [][AtDoubled =>
           /\ pc' = "scan"
           /\ step'.rule = "double"
           /\ tokens' = Append(tokens, PlainToken(shape, <<remaining_line[1]>>))
           /\ remaining_line' = From(remaining_line, 3)]_vars

\* the scan is at a "$" that opens a span: not doubled, and neither the
\* quadruple nor the directive template can match at a "$"
AtSpan ==
    /\ pc = "scan"
    /\ Len(remaining_line) >= 1
    /\ remaining_line[1] = "$"
    /\ Len(remaining_line) >= 2 => remaining_line[2] # "$"

\* the position of the "$" that closes the span opened at position 1 of s, or
\* Len(s) + 1 when s holds none
ClosingAt(s) ==
    CHOOSE e \in 2..(Len(s) + 1) :
        /\ e <= Len(s) => s[e] = "$"
        /\ \A k \in 2..(e - 1) : s[k] # "$"

\* tok is the token of the one character c, without a reading
Unannotated(sh, tok, c) ==
    /\ tok.jp = <<c>>
    /\ CASE sh = 1 -> tok.up_kana = None /\ tok.down_kana = None
         [] OTHER -> tok.kana = None

\* C21: when the "$"-span rule fires, every character between the opening
\* "$" and the next "$", or the end of the line if there is none, becomes a
\* token of its own without a reading, no dictionary lookup is made for those
\* characters, and neither "$" appears in the output: the scan resumes after
\* the closing "$"
C21_SpanPassThrough ==
    [][AtSpan =>
           \E e \in {ClosingAt(remaining_line)} :
               /\ pc' = "scan"
               /\ step'.rule = "dollar"
               /\ ~step'.searched
               /\ Len(tokens') = Len(tokens) + (e - 2)
               /\ \A k \in 1..Len(tokens) : tokens'[k] = tokens[k]
               /\ \A k \in 1..(e - 2) :
                      Unannotated(shape, tokens'[Len(tokens) + k], remaining_line[k + 1])
               /\ remaining_line' = From(remaining_line, e + 1)]_vars

\* the span $東京$ has been passed through character by character on a
\* dictionary that holds 東 and 東京, and the scan is at the 東 after it
C21_Witness ==
    /\ pc = "scan"
    /\ step.rule = "dollar"
    /\ line = <<"$", "c_tou", "c_kyo", "$", "c_tou">>
    /\ remaining_line = <<"c_tou">>
    /\ Len(tokens) = 2
    /\ tokens[1].jp = <<"c_tou">> /\ tokens[2].jp = <<"c_kyo">>
    /\ \E k \in 1..Len(dic) : dic[k].term = TermTou

\* C22: the scan loop of line_to_tokens0/1/2 terminates on every dictionary
\* of valid terms and every line, because every pass of the loop that does
\* not raise leaves the remaining text strictly shorter, a pass in which a
\* dictionary term matches included
C22_EveryPassShortens ==
    [][(pc = "scan" /\ pc' = "scan") => Len(remaining_line') < Len(remaining_line)]_vars

\* the line holds none of the control characters of the tokenizer
ControlFree(ln) == \A k \in 1..Len(ln) : ln[k] \notin {"$", "(", ")", "[", "]"}

\* C23: on every dictionary of valid terms and every line that holds none of
\* "$", "(", ")", "[", "]", the jp fields of the tokens returned, concatenated
\* in order, are the line, in each of the three shapes: on a dictionary hit
\* the spelling slots and the leftover make up the text the template matched
C23_ControlFreeRoundTrip ==
    (pc = "returned" /\ ControlFree(line)) => JpText(tokens) = line

\* C24: every quadruple (spelling, reading, division0, division1) that
\* auto_divide(jp, kana, type) returns constructs a Term of that type, for the
\* eight types (the priority plays no part in the validation)
C24_ResultsConstruct ==
    (out.op = "auto_divide" /\ out.result.kind = "list") =>
        \A k \in 1..Len(out.result.value) :
            \E q \in {out.result.value[k]} :
                Constructs(MkTerm(q[1], q[2], q[3], q[4], out.term_type, 0))

\* the slots of a field of a candidate under scheme 0: the part before the
\* "*" of the ending, without the boundaries of scheme 1, cut at every "/"
Slots0(field) ==
    Split(SelectSeq(Split(field, "*")[1], LAMBDA c : c # "\\"), "/")

\* the digit the rule gives a slot of other characters
RuleDigit(jp_slot, kana_slot) ==
    IF Len(jp_slot) = 1 THEN <<"0">>
    ELSE IF Len(kana_slot) > Len(jp_slot) THEN <<"1">>
    ELSE <<"2">>

\* C25: in every candidate auto_divide produces, each slot of a run of other
\* characters has the scheme-0 digit 0 when the slot's spelling is one
\* character, otherwise 1 when the slot's reading is longer than its
\* spelling, otherwise 2, also when the reading of the run is a single
\* character or is shorter than the run
C25_DigitRule ==
    (out.op = "auto_divide" /\ out.result.kind = "list"
     /\ out.term_type \notin {"eigo", "kahen"}) =>
        \A k \in 1..Len(out.result.value) :
            \E q \in {out.result.value[k]} :
                /\ Len(Slots0(q[1])) = Len(Slots0(q[3]))
                /\ Len(Slots0(q[2])) = Len(Slots0(q[3]))
                /\ \A i \in 1..Len(Slots0(q[1])) :
                       (\E j \in 1..Len(Slots0(q[1])[i]) : ~is_kana(Slots0(q[1])[i][j])) =>
                           Slots0(q[3])[i] = RuleDigit(Slots0(q[1])[i], Slots0(q[2])[i])

\* the stem of a spelling with an ending: what stands before the "*"
StemOf(jp) == Split(jp, "*")[1]

\* text starts with the stem of t followed by a surface ending of its type:
\* for a godan verb the six endings of its row, for an adjective the fifteen
\* endings; the endings of an ichidan or a sahen verb are written in kana, so
\* for these the character after the stem is a kana
StemThenEnding(t, text) ==
    /\ StartsWith(text, StemOf(t.jp))
    /\ \E rest \in {From(text, Len(StemOf(t.jp)) + 1)} :
           CASE t.term_type = "godan" ->
                    \E k \in 1..6 :
                        StartsWith(rest, <<GodanEndings(t.jp[Len(t.jp)])[k]>>)
             [] t.term_type = "keiyou" ->
                    \E k \in 1..Len(KeiyouEndings) : StartsWith(rest, KeiyouEndings[k])
             [] OTHER -> rest # <<>> /\ is_kana(rest[1])

\* C26: the template of a godan, ichidan, sahen or adjective term matches a
\* text only if the text begins with the term's stem immediately followed by
\* one of the surface endings of that type; it does not match a text in which
\* the stem is followed by anything else
C26_ClosedEndings ==
    (/\ out.op = "match"
     /\ ~out.err
     /\ out.match.matched
     /\ self.term_type \in {"godan", "jouge", "sahen", "keiyou"}) =>
        StemThenEnding(self, out.text)

\* the "*" of s that no "$" stands before
UnescapedStars(s) == {i \in 1..Len(s) : s[i] = "*" /\ (i = 1 \/ s[i - 1] # "$")}

\* C27: a spelling, reading or division string with more than one unescaped
\* "*" is malformed: gobi extraction raises MultipleGobiError for it, and so
\* Term construction never accepts a term with such a field
C27_MultipleGobiRejected ==
    (/\ out.op = "Term"
     /\ \E f \in {self.jp, self.kana, self.div0, self.div1} :
            Cardinality(UnescapedStars(f)) > 1) =>
        out.raised

\* C28: for every spelling and reading that are not empty and every type,
\* auto_divide returns a list of quadruples or None, or raises
\* AutoDivisionDisabledError or AutoDivisionChoiceOverflowError; it raises
\* nothing else, also when nothing is left of the spelling once the ending
\* is taken off
C28_OnlyDivisionErrors ==
    (out.op = "auto_divide" /\ out.jp # <<>> /\ out.kana # <<>>) =>
        out.result.kind \in
            {"list", "None", "AutoDivisionDisabledError", "AutoDivisionChoiceOverflowError"}

\* C29: on the dictionary find() or copy() returns, also when the source
\* holds appended rows not saved yet, the next-id counter is greater than
\* every id in the rows, so that an append returns an id that no row has and
\* overwrites nothing
C29_CounterAboveIds ==
    ret.op \in {"find", "copy"} => \A k \in 1..Len(dic) : dic[k].id < index

\* the slots at which a maximal run of equal digits starts
RunStarts(div_list) ==
    {i \in 1..Len(div_list) : i = 1 \/ int(div_list[i]) # int(div_list[i - 1])}

\* the k-th maximal run of equal digits: its first and its last slot
RunAt(div_list, k) ==
    With(CHOOSE i \in RunStarts(div_list) :
             Cardinality({j \in RunStarts(div_list) : j < i}) = k - 1,
         LAMBDA a :
        [first |-> a,
         last |-> CHOOSE b \in a..Len(div_list) :
                      /\ \A j \in a..b : int(div_list[j]) = int(div_list[a])
                      /\ b < Len(div_list) => int(div_list[b + 1]) # int(div_list[a])])

\* the slots from first to last of a list, concatenated
RunText(list, run) == Join([j \in 1..(run.last - run.first + 1) |-> list[run.first + j - 1]])

\* tok is the one token of the run: the spellings of its slots concatenated,
\* with their readings concatenated when the digit is 0 and no reading otherwise
IsRunToken(tok, p, run) ==
    /\ tok.jp = remove_seps(RunText(p.jp_list, run))
    /\ tok.kana = IF int(p.div_list[run.first]) = 0
                  THEN Some(remove_seps(RunText(p.kana_list, run))) ELSE None

\* to_token2 has decomposed the spelling of the term in self
Decomposed2 == out.op = "to_token2" /\ ~out.result.raised

\* the tokens to_token2 returned for the slots: all but the one of the leftover
SlotTokens(p) ==
    IF p.leftover = <<>> THEN out.result.tokens
    ELSE SubSeq(out.result.tokens, 1, Len(out.result.tokens) - 1)

\* C30: in the shape C decomposition of a term, each maximal run of
\* consecutive slots with the same scheme-1 digit gives exactly one token,
\* whose text is the run's spelling slots concatenated and which carries the
\* concatenated reading when the digit is 0
C30_OneTokenPerRun ==
    Decomposed2 =>
        \E p \in {pre_to_token(self, out.text, 2)} :
            /\ Len(SlotTokens(p)) = Cardinality(RunStarts(p.div_list))
            /\ \A k \in 1..Len(SlotTokens(p)) :
                   IsRunToken(SlotTokens(p)[k], p, RunAt(p.div_list, k))

\* the runs whose spelling slots are not all empty, in their order
TextRuns(p) ==
    SelectSeq([k \in 1..Cardinality(RunStarts(p.div_list)) |-> RunAt(p.div_list, k)],
              LAMBDA run : RunText(p.jp_list, run) # <<>>)

\* C30, amended: each maximal run of consecutive slots with the same
\* scheme-1 digit gives exactly one token, whose text is the run's spelling
\* slots concatenated and which carries the concatenated reading when the
\* digit is 0, unless all spelling slots of the run are empty: such a run
\* gives no token
C30_OneTokenPerTextRun ==
    Decomposed2 =>
        \E p \in {pre_to_token(self, out.text, 2)} :
            /\ Len(SlotTokens(p)) = Len(TextRuns(p))
            /\ \A k \in 1..Len(SlotTokens(p)) :
                   IsRunToken(SlotTokens(p)[k], p, TextRuns(p)[k])

\* 東\京 with the digits 0\0 has been decomposed into the one token 東京 (とき)
C30_Witness ==
    /\ Decomposed2
    /\ self.jp = <<"c_tou", "\\", "c_kyo">>
    /\ self.div1 = <<"0", "\\", "0">>
    /\ out.result.tokens = <<Token2(<<"c_tou", "c_kyo">>, Some(<<"h_to", "h_ki">>), FALSE)>>

====
